---- MODULE Spec2Model ----
(***************************************************************************)
(* Model of the classname grammar engine of eslint-plugin-tailwindcss and  *)
(* of the analyses built on it (classnames-order, no-contradicting-        *)
(* classname, enforces-shorthand).                                         *)
(*                                                                         *)
(* Strings are sequences of one-character strings, so that every slice,    *)
(* index and length of the source is computed as the source computes it.   *)
(***************************************************************************)
EXTENDS Integers, Sequences, FiniteSets, TLC

VARIABLES
  gpName,      \* getPrefix: the classname passed in
  gpResult,    \* getPrefix: the returned prefix
  gpDone,      \* getPrefix: whether the call has returned
  gpSuffix,    \* getSuffix: the suffix, and the prefix and the suffix of the suffix
  prParts,     \* parseClassname: the parts the raw classname is composed of
  prName,      \* parseClassname: the raw classname passed in
  prGroups,    \* parseClassname: the groups argument (the target groups or [])
  prResult,    \* parseClassname: the returned ParsedClassname
  prDone,      \* parseClassname: whether the call has returned
  shText,      \* enforces-shorthand: the text of the class attribute
  shReports,   \* enforces-shorthand: the reports of the last run, [classnames, shorthand]
  shFixed,     \* enforces-shorthand: the text the fix of the last run writes
  shPc,        \* enforces-shorthand: "idle", "ready" (to lint) or "linted"
  cfNode,      \* no-contradicting-classname: the node the rule visits
  cfReports,   \* no-contradicting-classname: the classnames list of each report
  cfThrown,    \* no-contradicting-classname: whether the visitor threw
  cfPc,        \* no-contradicting-classname: "idle", "ready" or "done"
  ordText,     \* classnames-order: the text of the class attribute
  ordRemove,   \* classnames-order: the option removeDuplicates
  ordReported, \* classnames-order: whether the last run reported invalidOrder
  ordValidated,\* classnames-order: validatedClassNamesValue of the last run
  ordFixes,    \* classnames-order: the number of fixes applied so far
  ordPc,       \* classnames-order: "idle", "ready" (to lint) or "linted"
  cpTheme,    \* patchRegex: the zIndex scale of the theme of each config instance
  cpCache,    \* patchRegex: cachedRegexes, the Map of each config instance
  cpCompiled, \* patchRegex: how many times each (instance, template) pair was compiled
  cpCall,     \* patchRegex: the arguments of the last call
  cpRet,      \* patchRegex: the string the last call returned
  soInput,    \* getSortedClassNames: the classnames passed in
  soOutput,   \* getSortedClassNames: the returned classnames
  soDone,     \* getSortedClassNames: whether the call has returned
  ngParts,    \* enforces-negative-arbitrary-values: the parts the classname is composed of
  ngText,     \* enforces-negative-arbitrary-values: the text of the class attribute
  ngDetected, \* enforces-negative-arbitrary-values: the classnames reported
  ngDone,     \* enforces-negative-arbitrary-values: whether the rule has run
  opName,     \* getOption: the name of the option asked for
  opContext,  \* getOption: context.options[0] and context.settings.tailwindcss
  opResult,   \* getOption: the value returned
  opPc,       \* getOption: idle, ready, or the version of getOption that has returned
  tgTag,      \* TaggedTemplateExpression: node.tag
  tgTags,     \* TaggedTemplateExpression: the option tags
  tgShared,   \* what the visitor of createClassnameVisitors did with the template
  tgRule,     \* what the visitor of no-contradicting-classname did with the template
  grConfig,   \* getGroups: the argument groupsConfig
  grGroups,   \* getGroups: the list returned
  grKeys,     \* getGroupConfigKeys: the list returned
  grPc,       \* which of getGroups and getGroupConfigKeys have returned
  pxTheme,    \* patchRegex: the zIndex scale of config.theme
  pxRe,       \* patchRegex: the template re
  pxResult,   \* patchRegex: the pattern returned
  pxDone,     \* patchRegex has returned
  szTheme,    \* enforces-shorthand: the size, width and height scales of mergedConfig.theme
  szNames,    \* enforces-shorthand: the classnames of the attribute
  szOut,      \* enforces-shorthand: the troubles of the equivalences, or the throw
  szDone,     \* enforces-shorthand: the equivalences have been gone through
  exText,     \* extractClassnamesFromValue: the argument classStr
  exResult,   \* extractClassnamesFromValue: the result
  exDone,     \* extractClassnamesFromValue has returned
  avText,     \* no-unnecessary-arbitrary-value: the class string of the literal
  avFlagged,  \* no-unnecessary-arbitrary-value: the flagged classnames and their presets
  avFixed,    \* no-unnecessary-arbitrary-value: the text the fix writes
  avDone,     \* no-unnecessary-arbitrary-value: the callback has returned
  wkKind,     \* worker: the worker file, "sorted" or "config"
  wkNow,      \* worker: Date.now()
  wkLastCheck,     \* customConfig: the Map lastCheck
  wkMergedConfig,  \* customConfig: the Map mergedConfig, the values as instance numbers
  wkContexts, \* the context of every TailwindUtils instance, in order of construction
  wkLog,      \* history: every call of the worker, with what it resolved, read and answered
  wkPc        \* worker: "idle", or "loading" while loadConfig is awaited

gpVars == <<gpName, gpResult, gpDone, gpSuffix>>

prVars == <<prParts, prName, prGroups, prResult, prDone>>

shVars == <<shText, shReports, shFixed, shPc>>

cfVars == <<cfNode, cfReports, cfThrown, cfPc>>

ordVars == <<ordText, ordRemove, ordReported, ordValidated, ordFixes, ordPc>>

cpVars == <<cpTheme, cpCache, cpCompiled, cpCall, cpRet>>

soVars == <<soInput, soOutput, soDone>>

ngVars == <<ngParts, ngText, ngDetected, ngDone>>

opVars == <<opName, opContext, opResult, opPc>>

tgVars == <<tgTag, tgTags, tgShared, tgRule>>

grVars == <<grConfig, grGroups, grKeys, grPc>>

pxVars == <<pxTheme, pxRe, pxResult, pxDone>>

szVars == <<szTheme, szNames, szOut, szDone>>

exVars == <<exText, exResult, exDone>>

avVars == <<avText, avFlagged, avFixed, avDone>>

wkVars == <<wkKind, wkNow, wkLastCheck, wkMergedConfig, wkContexts, wkLog, wkPc>>

vars ==
  <<gpName, gpResult, gpDone, gpSuffix, prParts, prName, prGroups, prResult, prDone,
    shText, shReports, shFixed, shPc, cfNode, cfReports, cfThrown, cfPc,
    ordText, ordRemove, ordReported, ordValidated, ordFixes, ordPc,
    cpTheme, cpCache, cpCompiled, cpCall, cpRet,
    soInput, soOutput, soDone,
    ngParts, ngText, ngDetected, ngDone,
    opName, opContext, opResult, opPc,
    tgTag, tgTags, tgShared, tgRule,
    grConfig, grGroups, grKeys, grPc,
    pxTheme, pxRe, pxResult, pxDone,
    szTheme, szNames, szOut, szDone,
    exText, exResult, exDone,
    avText, avFlagged, avFixed, avDone,
    wkKind, wkNow, wkLastCheck, wkMergedConfig, wkContexts, wkLog, wkPc>>

(***************************************************************************)
(* The idle values of each analysis: what its variables hold while another *)
(* analysis is the one running                                             *)
(***************************************************************************)
EmptyParsed ==
  [index |-> 0, name |-> <<>>, variants |-> <<>>, parentType |-> "", body |-> <<>>,
   value |-> <<>>, shorthand |-> "", leading |-> <<>>, trailing |-> <<>>,
   important |-> FALSE]

IdleCache ==
  /\ cpTheme = <<>>
  /\ cpCache = <<>>
  /\ cpCompiled = <<>>
  /\ cpCall = <<>>
  /\ cpRet = <<>>

IdleSort ==
  /\ soInput = <<>>
  /\ soOutput = <<>>
  /\ soDone = FALSE

IdleNegative ==
  /\ ngParts = <<>>
  /\ ngText = <<>>
  /\ ngDetected = <<>>
  /\ ngDone = FALSE

IdleOptions ==
  /\ opName = ""
  /\ opContext = <<>>
  /\ opResult = <<>>
  /\ opPc = "idle"

IdleTagged ==
  /\ tgTag = <<>>
  /\ tgTags = <<>>
  /\ tgShared = "idle"
  /\ tgRule = "idle"

IdleGroups ==
  /\ grConfig = <<>>
  /\ grGroups = <<>>
  /\ grKeys = <<>>
  /\ grPc = "idle"

IdlePatch ==
  /\ pxTheme = <<>>
  /\ pxRe = <<>>
  /\ pxResult = <<>>
  /\ pxDone = FALSE

IdleSize ==
  /\ szTheme = <<>>
  /\ szNames = <<>>
  /\ szOut = <<>>
  /\ szDone = FALSE

IdleExtract ==
  /\ exText = <<>>
  /\ exResult = <<>>
  /\ exDone = FALSE

IdleArbitrary ==
  /\ avText = <<>>
  /\ avFlagged = <<>>
  /\ avFixed = <<>>
  /\ avDone = FALSE

IdleWorker ==
  /\ wkKind = ""
  /\ wkNow = 0
  /\ wkLastCheck = <<>>
  /\ wkMergedConfig = <<>>
  /\ wkContexts = <<>>
  /\ wkLog = <<>>
  /\ wkPc = ""

IdleParse ==
  /\ prParts = [kind |-> "none"]
  /\ prName = <<>>
  /\ prGroups = "none"
  /\ prResult = EmptyParsed
  /\ prDone = FALSE

IdlePrefix ==
  /\ gpName = <<>>
  /\ gpResult = <<>>
  /\ gpDone = FALSE
  /\ gpSuffix = <<>>

IdleShorthand ==
  /\ shText = <<>>
  /\ shReports = <<>>
  /\ shFixed = <<>>
  /\ shPc = "idle"

IdleConflict ==
  /\ cfNode = [host |-> "none"]
  /\ cfReports = <<>>
  /\ cfThrown = FALSE
  /\ cfPc = "idle"

IdleOrder ==
  /\ ordText = <<>>
  /\ ordRemove = FALSE
  /\ ordReported = FALSE
  /\ ordValidated = <<>>
  /\ ordFixes = 0
  /\ ordPc = "idle"

(***************************************************************************)
(* String helpers (String.prototype.slice / startsWith / concatenation)    *)
(***************************************************************************)
Min(a, b) == IF a < b THEN a ELSE b

Max(a, b) == IF a > b THEN a ELSE b

\* s.slice(0, n) for n >= 0
Take(s, n) == SubSeq(s, 1, Min(n, Len(s)))

\* s.slice(n) for n >= 0
Drop(s, n) == SubSeq(s, Min(n, Len(s)) + 1, Len(s))

StartsWith(s, p) == Len(p) <= Len(s) /\ SubSeq(s, 1, Len(p)) = p

\* All sequences over S of length at most n
RECURSIVE SeqsUpTo(_, _)
SeqsUpTo(S, n) ==
  IF n = 0 THEN {<<>>}
  ELSE LET shorter == SeqsUpTo(S, n - 1)
       IN  shorter \cup {Append(s, c) : s \in {t \in shorter : Len(t) = n - 1}, c \in S}

(***************************************************************************)
(* getPrefix / getSuffix                                                   *)
(***************************************************************************)
\* The characters of the class [\da-z-]
WordChars ==
  {"a", "b", "c", "d", "e", "f", "g", "h", "i", "j", "k", "l", "m", "n", "o", "p", "q", "r",
   "s", "t", "u", "v", "w", "x", "y", "z", "0", "1", "2", "3", "4", "5", "6", "7", "8", "9",
   "-"}

\* (?<!\[[\da-z-]*) fails at i: some '[' before i is followed only by [\da-z-] up to i
LookbehindHit(s, i) ==
  \E j \in 1..(i - 1) :
    s[j] = "[" /\ \A k \in (j + 1)..(i - 1) : s[k] \in WordChars

\* (?![\da-z-]*]) fails at i: some ']' after i is preceded only by [\da-z-] from i
LookaheadHit(s, i) ==
  \E j \in (i + 1)..Len(s) :
    s[j] = "]" /\ \A k \in (i + 1)..(j - 1) : s[k] \in WordChars

\* rootSeparatorRegex matches the ':' at position i of s
IsRootSeparator(s, i) ==
  s[i] = ":" /\ ~LookbehindHit(s, i) /\ ~LookaheadHit(s, i)

\* rootSeparatorRegex.exec(s): results.index + 1 of the first match, 0 for null
RootSeparatorExec(s) ==
  LET hits == {i \in 1..Len(s) : IsRootSeparator(s, i)}
  IN  IF hits = {} THEN 0 ELSE CHOOSE i \in hits : \A j \in hits : i <= j

\* a scan that stops at the first separator
PrefixScanOnce(classname, index) == index + RootSeparatorExec(classname)

\* the while loop of getPrefix: the accumulated index
RECURSIVE PrefixScan(_, _)
PrefixScan(classname, index) ==
  LET newIndex == RootSeparatorExec(classname)
  IN  IF newIndex = 0 THEN index
      ELSE PrefixScan(Drop(classname, newIndex), index + newIndex)

getPrefix(name) ==
  LET index == PrefixScan(name, 0)
  IN  IF index # 0 THEN Take(name, index) ELSE <<>>

getSuffix(className) == Drop(className, Len(getPrefix(className)))

(***************************************************************************)
(* Theme and group taxonomy                                                *)
(***************************************************************************)
\* mergedConfig.prefix
ConfigPrefix == <<>>

\* The theme scales read by the modelled leaves and by the size equivalence:
\* each key with its raw value and the kind of that value ("num" parses as a
\* number, "nan" does not).
ThemeScale(prop) ==
  CASE prop = "margin" ->
         {[key |-> <<"2">>, kind |-> "num", val |-> "0.5rem"],
          [key |-> <<"4">>, kind |-> "num", val |-> "1rem"],
          [key |-> <<"a", "u", "t", "o">>, kind |-> "nan", val |-> "auto"]}
    [] prop = "padding" ->
         {[key |-> <<"2">>, kind |-> "num", val |-> "0.5rem"],
          [key |-> <<"4">>, kind |-> "num", val |-> "1rem"]}
    [] prop = "width" ->
         {[key |-> <<"2">>, kind |-> "num", val |-> "0.5rem"],
          [key |-> <<"4">>, kind |-> "num", val |-> "1rem"]}
    [] prop = "height" ->
         {[key |-> <<"2">>, kind |-> "num", val |-> "0.5rem"],
          [key |-> <<"4">>, kind |-> "num", val |-> "1rem"]}
    [] prop = "size" ->
         {[key |-> <<"2">>, kind |-> "num", val |-> "0.5rem"],
          [key |-> <<"4">>, kind |-> "num", val |-> "1rem"]}
    [] prop = "borderRadius" ->
         {[key |-> <<"l", "g">>, kind |-> "num", val |-> "0.5rem"]}
    [] OTHER -> {}

\* patchRegex, positive placeholder ${prop}: keys not beginning with '-'
PositiveKeys(prop) == {e.key : e \in {x \in ThemeScale(prop) : x.key[1] # "-"}}

\* patchRegex, negative placeholder ${-prop}: keys whose value is a number or
\* a calc(), a leading '-' of the key stripped
NegativeKeys(prop) ==
  {IF e.key[1] = "-" THEN Drop(e.key, 1) ELSE e.key :
     e \in {x \in ThemeScale(prop) : x.kind \in {"num", "calc"}}}

\* generateOptions: the bracketed arbitrary option, \[(?!...).{1,}\] for the
\* length-like properties and \[(.*)\] in the default case
ForbiddenTypes ==
  {<<"a", "n", "g", "l", "e", ":">>, <<"c", "o", "l", "o", "r", ":">>,
   <<"l", "e", "n", "g", "t", "h", ":">>, <<"l", "i", "s", "t", ":">>}

IsArbitraryOption(prop, v) ==
  /\ Len(v) >= (IF prop = "borderRadius" THEN 2 ELSE 3)
  /\ v[1] = "["
  /\ v[Len(v)] = "]"
  /\ prop # "borderRadius" => \A t \in ForbiddenTypes : ~StartsWith(Drop(v, 1), t)

Leaf(t, b, prop, neg, sh, opt) ==
  [type |-> t, leaf |-> TRUE, body |-> b, configKey |-> prop, negative |-> neg,
   shorthand |-> sh, optionalValue |-> opt]

Node(t, ms) == [type |-> t, leaf |-> FALSE, members |-> ms]

\* The target groups of the taxonomy. A leaf with body B stands for the
\* template  B\-(?<value>${prop})  joined, when negative, with
\* |\-B\-(?<negativeValue>${-prop}),  and when optionalValue for
\* B(\-(?<value>${prop}))?
targetGroups ==
  << Node("Spacing",
       << Node("Padding",
            << Leaf("p", <<"p">>, "padding", FALSE, "all", FALSE),
               Leaf("py", <<"p", "y">>, "padding", FALSE, "y", FALSE),
               Leaf("px", <<"p", "x">>, "padding", FALSE, "x", FALSE),
               Leaf("pt", <<"p", "t">>, "padding", FALSE, "t", FALSE),
               Leaf("pr", <<"p", "r">>, "padding", FALSE, "r", FALSE),
               Leaf("pb", <<"p", "b">>, "padding", FALSE, "b", FALSE),
               Leaf("pl", <<"p", "l">>, "padding", FALSE, "l", FALSE) >>),
          Node("Margin",
            << Leaf("m", <<"m">>, "margin", TRUE, "all", FALSE),
               Leaf("my", <<"m", "y">>, "margin", TRUE, "y", FALSE),
               Leaf("mx", <<"m", "x">>, "margin", TRUE, "x", FALSE),
               Leaf("mt", <<"m", "t">>, "margin", TRUE, "t", FALSE),
               Leaf("mr", <<"m", "r">>, "margin", TRUE, "r", FALSE),
               Leaf("mb", <<"m", "b">>, "margin", TRUE, "b", FALSE),
               Leaf("ml", <<"m", "l">>, "margin", TRUE, "l", FALSE) >>) >>),
     Node("Sizing",
       << Leaf("Width", <<"w">>, "width", FALSE, "", FALSE),
          Leaf("Height", <<"h">>, "height", FALSE, "", FALSE) >>),
     Node("Borders",
       << Node("Border Radius",
            << Leaf("rounded", <<"r", "o", "u", "n", "d", "e", "d">>, "borderRadius", FALSE, "all", TRUE),
               Leaf("rounded-t", <<"r", "o", "u", "n", "d", "e", "d", "-", "t">>, "borderRadius", FALSE, "t", TRUE),
               Leaf("rounded-r", <<"r", "o", "u", "n", "d", "e", "d", "-", "r">>, "borderRadius", FALSE, "r", TRUE),
               Leaf("rounded-b", <<"r", "o", "u", "n", "d", "e", "d", "-", "b">>, "borderRadius", FALSE, "b", TRUE),
               Leaf("rounded-l", <<"r", "o", "u", "n", "d", "e", "d", "-", "l">>, "borderRadius", FALSE, "l", TRUE),
               Leaf("rounded-tl", <<"r", "o", "u", "n", "d", "e", "d", "-", "t", "l">>, "borderRadius", FALSE, "tl", TRUE),
               Leaf("rounded-tr", <<"r", "o", "u", "n", "d", "e", "d", "-", "t", "r">>, "borderRadius", FALSE, "tr", TRUE),
               Leaf("rounded-br", <<"r", "o", "u", "n", "d", "e", "d", "-", "b", "r">>, "borderRadius", FALSE, "br", TRUE),
               Leaf("rounded-bl", <<"r", "o", "u", "n", "d", "e", "d", "-", "b", "l">>, "borderRadius", FALSE, "bl", TRUE) >>) >>) >>

\* Groups whose leaves overlap: m-4 is matched by the leaf of Spacing, by
\* the leaf of Margin nested behind it, which has no negative form, and by
\* a leaf of Sizing; p-4 by the leaf of Padding before the leaf of Spacing.
overlapGroups ==
  << Node("Spacing",
       << Leaf("m (signed)", <<"m">>, "margin", TRUE, "signed", FALSE),
          Node("Margin", << Leaf("m", <<"m">>, "margin", FALSE, "all", FALSE) >>),
          Node("Padding", << Leaf("p", <<"p">>, "padding", FALSE, "all", FALSE) >>),
          Leaf("p (signed)", <<"p">>, "padding", TRUE, "signed", FALSE) >>),
     Node("Sizing",
       << Leaf("m (sizing)", <<"m">>, "margin", TRUE, "sizing", FALSE) >>) >>

(***************************************************************************)
(* findInGroup / parseClassname                                            *)
(***************************************************************************)
NoMatch == [matched |-> FALSE]

\* new RegExp(`^(${patchRegex(members, config)})$`).exec(name) on a leaf, and
\* the value read from its named groups
LeafMatch(name, group, parentType) ==
  LET rest == IF StartsWith(name, <<"!">>) THEN Drop(name, 1) ELSE name  \* \!?
      stem == ConfigPrefix \o group.body
      posHead == stem \o <<"-">>
      negHead == <<"-">> \o stem \o <<"-">>
      posVal == Drop(rest, Len(posHead))
      negVal == Drop(rest, Len(negHead))
      found(v) == [matched |-> TRUE, group |-> parentType, type |-> group.type,
                   shorthand |-> group.shorthand, body |-> group.body, value |-> v]
  IN  IF group.configKey = "arbitraryProperties"
      THEN (IF Len(rest) >= 2 /\ rest[1] = "[" /\ rest[Len(rest)] = "]"
            THEN found(<<>>) ELSE NoMatch)
      ELSE IF /\ StartsWith(rest, posHead)
         /\ \/ posVal \in PositiveKeys(group.configKey)
            \/ IsArbitraryOption(group.configKey, posVal)
      THEN found(posVal)
      ELSE IF /\ group.negative
              /\ StartsWith(rest, negHead)
              /\ \/ negVal \in NegativeKeys(group.configKey)
                 \/ IsArbitraryOption(group.configKey, negVal)
      THEN found(<<"-">> \o negVal)
      ELSE IF group.optionalValue /\ rest = stem
      THEN found(<<>>)
      ELSE NoMatch

RECURSIVE findInGroup(_, _, _)
RECURSIVE findInMembers(_, _, _)
\* the for loop of findInGroup over the children, from child i on
findInMembers(name, group, i) ==
  IF i > Len(group.members) THEN NoMatch
  ELSE LET found == findInGroup(name, group.members[i], group.type)
       IN  IF found.matched THEN found
           ELSE findInMembers(name, group, i + 1)

findInGroup(name, group, parentType) ==
  IF group.leaf THEN LeafMatch(name, group, parentType)
  ELSE findInMembers(name, group, 1)

RECURSIVE findSlotLast(_, _, _)
RECURSIVE findSlot(_, _, _)
\* a loop over arr that keeps the slot of the last group that yields one
findSlotLast(classSuffix, arr, i) ==
  IF i > Len(arr) THEN NoMatch
  ELSE LET later == findSlotLast(classSuffix, arr, i + 1)
       IN  IF later.matched THEN later ELSE findInGroup(classSuffix, arr[i], "")

\* the loop of parseClassname over arr: the first group that yields a slot
findSlot(classSuffix, arr, i) ==
  IF i > Len(arr) THEN NoMatch
  ELSE LET found == findInGroup(classSuffix, arr[i], "")
       IN  IF found.matched THEN found ELSE findSlot(classSuffix, arr, i + 1)

\* the length of the match of /^\s*/ on s
RECURSIVE LeadingSpaces(_)
LeadingSpaces(s) ==
  IF s # <<>> /\ s[1] = " " THEN 1 + LeadingSpaces(Drop(s, 1)) ELSE 0

\* the length of the match of /\s*$/ on s
RECURSIVE TrailingSpaces(_)
TrailingSpaces(s) ==
  IF s # <<>> /\ s[Len(s)] = " " THEN 1 + TrailingSpaces(Take(s, Len(s) - 1)) ELSE 0

\* String.prototype.substring(a, b): the arguments are swapped when a > b
Substring(s, a, b) ==
  LET lo == Max(0, Min(Min(a, b), Len(s)))
      hi == Max(0, Min(Max(a, b), Len(s)))
  IN  SubSeq(s, lo + 1, hi)

\* a body slice that forgets to cut the variant prefix off
BodyOfKeepingVariants(core, variants, value) ==
  LET off == IF StartsWith(value, <<"-">>) THEN 1 ELSE 0
  IN  Drop(Take(core, Max(0, Len(core) - Len(value) + off)), off)

\* the body slice of parseClassname
BodyOf(core, variants, value) ==
  LET off == IF StartsWith(value, <<"-">>) THEN 1 ELSE 0
  IN  Drop(Take(core, Max(0, Len(core) - Len(value) + off)), Len(variants) + off)

parseClassname(name, arr, index) ==
  LET leading == Take(name, LeadingSpaces(name))
      trailing == Drop(name, Len(name) - TrailingSpaces(name))
      core == Substring(name, Len(leading), Len(name) - Len(trailing))
      variants == getPrefix(core)
      classSuffix == getSuffix(core)
      slot == findSlot(classSuffix, arr, 1)
      value == IF slot.matched THEN slot.value ELSE <<>>
      body == BodyOf(core, variants, value)
  IN  [index |-> index,
       name |-> core,
       variants |-> variants,
       parentType |-> IF slot.matched THEN slot.group ELSE "",
       body |-> body,
       value |-> value,
       shorthand |-> IF slot.matched THEN slot.shorthand ELSE "",
       leading |-> leading,
       trailing |-> trailing,
       important |-> StartsWith(body, <<"!">>)]


(***************************************************************************)
(* extractClassnamesFromValue (util/ast.ts)                                *)
(***************************************************************************)
\* separatorRegEx /([\t\n\f\r ]+)/ : the model's whitespace character is ' '
IsSeparator(c) == c = " "

\* the length of the maximal run, at the head of s, of characters that are
\* separators (sp) or are not (~sp)
RECURSIVE RunLen(_, _)
RunLen(s, sp) ==
  IF s # <<>> /\ IsSeparator(s[1]) = sp THEN 1 + RunLen(Tail(s), sp) ELSE 0

\* classStr.split(separatorRegEx) without the empty first and last part
RECURSIVE Parts(_)
Parts(s) ==
  IF s = <<>> THEN <<>>
  ELSE LET n == RunLen(s, IsSeparator(s[1]))
       IN  <<Take(s, n)>> \o Parts(Drop(s, n))

\* parts.filter((_, i) => i % 2 === rem), i counted from 0
FilterByParity(parts, rem) ==
  [k \in 1..((Len(parts) + 1 - rem) \div 2) |-> parts[2 * k - 1 + rem]]

\* a split that takes the first part for a classname whatever it is
extractIgnoringHeadSpace(classStr) ==
  LET parts == Parts(classStr)
  IN  [classNames |-> FilterByParity(parts, 0),
       whitespaces |-> FilterByParity(parts, 1),
       headSpace |-> parts # <<>> /\ IsSeparator(parts[1][1]),
       tailSpace |-> parts # <<>> /\ IsSeparator(parts[Len(parts)][1])]

extractClassnamesFromValue(classStr) ==
  LET parts == Parts(classStr)
      headSpace == parts # <<>> /\ IsSeparator(parts[1][1])
      tailSpace == parts # <<>> /\ IsSeparator(parts[Len(parts)][1])
  IN  [classNames |-> FilterByParity(parts, IF headSpace THEN 1 ELSE 0),
       whitespaces |-> FilterByParity(parts, IF headSpace THEN 0 ELSE 1),
       headSpace |-> headSpace,
       tailSpace |-> tailSpace]

\* whitespaces[i] ?? "" , i counted from 0
WhitespaceAt(whitespaces, i) ==
  IF i + 1 <= Len(whitespaces) THEN whitespaces[i + 1] ELSE <<>>

\* whitespaces.at(-1) ?? ""
LastWhitespace(whitespaces) ==
  IF whitespaces = <<>> THEN <<>> ELSE whitespaces[Len(whitespaces)]

(***************************************************************************)
(* enforces-shorthand: complex equivalences                                *)
(***************************************************************************)
\* String.prototype.includes
Contains(s, sub) ==
  \E i \in 0..(Len(s) - Len(sub)) : SubSeq(s, i + 1, i + Len(sub)) = sub

\* theme[prop][key], "" standing for undefined
ThemeValue(prop, key) ==
  IF \E e \in ThemeScale(prop) : e.key = key
  THEN (CHOOSE e \in ThemeScale(prop) : e.key = key).val
  ELSE ""

\* the table of equivalences across parent types: truncate, size-, and of
\* the generated place-content / place-items / place-self rows the first
complexEquivalences ==
  << [needles |-> << <<"o", "v", "e", "r", "f", "l", "o", "w", "-", "h", "i", "d", "d", "e", "n">>,
                     <<"t", "e", "x", "t", "-", "e", "l", "l", "i", "p", "s", "i", "s">>,
                     <<"w", "h", "i", "t", "e", "s", "p", "a", "c", "e", "-", "n", "o", "w", "r", "a", "p">> >>,
      shorthand |-> <<"t", "r", "u", "n", "c", "a", "t", "e">>,
      mode |-> "exact"],
     [needles |-> << <<"w", "-">>, <<"h", "-">> >>,
      shorthand |-> <<"s", "i", "z", "e", "-">>,
      mode |-> "value"],
     [needles |-> << <<"c", "o", "n", "t", "e", "n", "t", "-", "c", "e", "n", "t", "e", "r">>,
                     <<"j", "u", "s", "t", "i", "f", "y", "-", "c", "e", "n", "t", "e", "r">> >>,
      shorthand |-> <<"p", "l", "a", "c", "e", "-", "c", "o", "n", "t", "e", "n", "t", "-",
                      "c", "e", "n", "t", "e", "r">>,
      mode |-> "exact"],
     [needles |-> << <<"i", "t", "e", "m", "s", "-", "c", "e", "n", "t", "e", "r">>,
                     <<"j", "u", "s", "t", "i", "f", "y", "-", "i", "t", "e", "m", "s", "-", "c", "e", "n", "t", "e", "r">> >>,
      shorthand |-> <<"p", "l", "a", "c", "e", "-", "i", "t", "e", "m", "s", "-", "c", "e", "n", "t", "e", "r">>,
      mode |-> "exact"] >>

ImportantMark(c) == IF c.important THEN <<"!">> ELSE <<>>

\* the filter that yields parsedElementsInInputSet
InInputSet(c, e) ==
  IF e.mode = "exact"
  THEN \E k \in 1..Len(e.needles) : Contains(c.name, e.needles[k])
  ELSE LET bodyMatch == \E k \in 1..Len(e.needles) : ConfigPrefix \o e.needles[k] = c.body
           wValue == ThemeValue("width", c.value)
           hValue == ThemeValue("height", c.value)
           sizeValue == ThemeValue("size", c.value)
           isSize == Contains(c.body, <<"h", "-">>) \/ Contains(c.body, <<"w", "-">>)
           isValidSize == \E s \in ThemeScale("size") : s.key = c.value
           fullMatch == wValue = hValue /\ wValue = sizeValue
       IN  IF sizeValue = "" \/ wValue = "" \/ hValue = "" THEN FALSE
           ELSE bodyMatch /\ ~(isSize /\ ~isValidSize /\ ~fullMatch)

\* the Map variantGroups, as the sequence of its entries in insertion order
RECURSIVE VariantGroups(_, _, _, _)
VariantGroups(inSet, e, i, acc) ==
  IF i > Len(inSet) THEN acc
  ELSE LET o == inSet[i]
           val == IF e.mode = "value" THEN o.value ELSE <<>>
           v == o.variants \o ImportantMark(o) \o val
           same(c) == /\ c.variants = o.variants
                      /\ c.important = o.important
                      /\ (val = <<>> \/ c.value = val)
       IN  IF \E k \in 1..Len(acc) : acc[k].key = v
           THEN VariantGroups(inSet, e, i + 1, acc)
           ELSE VariantGroups(inSet, e, i + 1,
                              Append(acc, [key |-> v, classes |-> SelectSeq(inSet, same)]))

\* a key of variantGroups that enters validKeys
IsValidKey(g, e) ==
  /\ ~(Len(g.classes) < Len(e.needles))
  /\ ~(e.mode = "value" /\ Cardinality({g.classes[k].value : k \in 1..Len(g.classes)}) # 1)

\* for (const k of validKeys): the trouble, the validated shorthand, and the
\* candidates taken out of remaining
RECURSIVE ApplyValidKeys(_, _, _, _)
ApplyValidKeys(groups, e, i, st) ==
  IF i > Len(groups) THEN st
  ELSE IF ~IsValidKey(groups[i], e) THEN ApplyValidKeys(groups, e, i + 1, st)
  ELSE LET candidates == groups[i].classes
           first == candidates[1]
           classValue == IF e.mode = "value" THEN first.value ELSE <<>>
           patchedClassname ==
             first.variants \o ImportantMark(first) \o ConfigPrefix \o e.shorthand \o classValue
           isCandidate(p) == \E k \in 1..Len(candidates) : candidates[k].index = p.index
           notCandidate(p) == ~isCandidate(p)
       IN  ApplyValidKeys(groups, e, i + 1,
             [remaining |-> SelectSeq(st.remaining, notCandidate),
              validated |-> Append(st.validated,
                                   parseClassname(patchedClassname, targetGroups, first.index)),
              troubles |-> Append(st.troubles,
                                  [classnames |-> [k \in 1..Len(candidates) |-> candidates[k].name],
                                   shorthand |-> patchedClassname])])

\* the loop over complexEquivalences, from row i on
RECURSIVE ComplexPhase(_, _)
ComplexPhase(st, i) ==
  IF i > Len(complexEquivalences) THEN st
  ELSE LET e == complexEquivalences[i]
           inSet(c) == InInputSet(c, e)
       IN  IF Len(st.remaining) < Len(e.needles) THEN ComplexPhase(st, i + 1)
           ELSE ComplexPhase(
                  ApplyValidKeys(VariantGroups(SelectSeq(st.remaining, inSet), e, 1, <<>>),
                                 e, 1, st),
                  i + 1)

(***************************************************************************)
(* enforces-shorthand: classnames of the same parent type                  *)
(***************************************************************************)
isLR(c) == c.shorthand = "l" \/ c.shorthand = "r"

isTB(c) == c.shorthand = "t" \/ c.shorthand = "b"

\* the first element of seq that satisfies Test, as a sequence of 0 or 1
FindFirst(seq, Test(_)) ==
  LET hits == SelectSeq(seq, Test) IN IF hits = <<>> THEN <<>> ELSE <<hits[1]>>

\* a lookup that returns the body of the top edge whatever shorthand is asked
getBodyOfTopEdge(targetGroupsArg, parentType, shorthand) ==
  LET hasMember(obj) ==
        ~obj.leaf /\ \E k \in 1..Len(obj.members) : obj.members[k].type = parentType
      mainGroup == FindFirst(targetGroupsArg, hasMember)
      isParent(m) == m.type = parentType
      isTop(m) == m.leaf /\ m.shorthand = "t"
  IN  IF mainGroup = <<>> THEN <<>>
      ELSE FindFirst(FindFirst(mainGroup[1].members, isParent)[1].members, isTop)[1].body

getBodyByShorthand(targetGroupsArg, parentType, shorthand) ==
  LET hasMember(obj) ==
        ~obj.leaf /\ \E k \in 1..Len(obj.members) : obj.members[k].type = parentType
      mainGroup == FindFirst(targetGroupsArg, hasMember)
      isParent(m) == m.type = parentType
      hasShorthand(m) == m.leaf /\ m.shorthand = shorthand
  IN  IF mainGroup = <<>> THEN <<>>
      ELSE LET typeGroup == FindFirst(mainGroup[1].members, isParent)
           IN  IF typeGroup = <<>> \/ typeGroup[1].leaf THEN <<>>
               ELSE LET type == FindFirst(typeGroup[1].members, hasShorthand)
                    IN  IF type = <<>> THEN <<>> ELSE type[1].body

\* a loop that keeps every classname as it is
KeepEveryRef(refs, i, toBeKept, replaced, patchedName, tag) == refs

\* for (const ref of sameVariantAndValue): the kept classnames pass, the first
\* of the others becomes the shorthand, the rest is dropped
RECURSIVE KeepOrReplace(_, _, _, _, _, _)
KeepOrReplace(refs, i, toBeKept, replaced, patchedName, tag) ==
  IF i > Len(refs) THEN <<>>
  ELSE LET ref == refs[i]
       IN  IF \E k \in 1..Len(toBeKept) : toBeKept[k].name = ref.name
           THEN <<ref>> \o KeepOrReplace(refs, i + 1, toBeKept, replaced, patchedName, tag)
           ELSE IF ~replaced
           THEN <<[ref EXCEPT !.name = patchedName, !.shorthand = tag]>>
                  \o KeepOrReplace(refs, i + 1, toBeKept, TRUE, patchedName, tag)
           ELSE KeepOrReplace(refs, i + 1, toBeKept, replaced, patchedName, tag)

Names(seq) == [k \in 1..Len(seq) |-> seq[k].name]

\* the body of the loop over sameType for a key not seen before:
\* what it pushes to validated and to troubles
Collapse(cls, sameVariantAndValue, parentType) ==
  LET shortHands == {sameVariantAndValue[k].shorthand : k \in 1..Len(sameVariantAndValue)}
      supportCorners == parentType = "Border Radius"
      hasTL == supportCorners /\ ("all" \in shortHands \/ "t" \in shortHands \/ "tl" \in shortHands)
      hasTR == supportCorners /\ ("all" \in shortHands \/ "t" \in shortHands \/ "tr" \in shortHands)
      hasBR == supportCorners /\ ("all" \in shortHands \/ "b" \in shortHands \/ "br" \in shortHands)
      hasBL == supportCorners /\ ("all" \in shortHands \/ "b" \in shortHands \/ "bl" \in shortHands)
      hasT == "t" \in shortHands \/ (hasTL /\ hasTR)
      hasR == "r" \in shortHands \/ (hasTR /\ hasBR)
      hasB == "b" \in shortHands \/ (hasBL /\ hasBR)
      hasL == "l" \in shortHands \/ (hasTL /\ hasBL)
      hasX == "x" \in shortHands \/ (hasL /\ hasR)
      hasY == "y" \in shortHands \/ (hasT /\ hasB)
      hasAllProp == "all" \in shortHands
      hasAllPropNoCorner == hasY /\ hasX
      hasAllPropWithCorners == (hasL /\ hasR) \/ (hasT /\ hasB)
      hasAllEquivalent == IF ~supportCorners THEN hasAllPropNoCorner ELSE hasAllPropWithCorners
      hasAll == hasAllProp \/ hasAllEquivalent
      isNegative == StartsWith(cls.value, <<"-">>)
      minus == IF isNegative THEN <<"-">> ELSE <<>>
      absoluteVal == IF isNegative THEN Drop(cls.value, 1) ELSE cls.value
      val == IF absoluteVal # <<>> THEN <<"-">> \o absoluteVal ELSE <<>>
      patched(body) == cls.variants \o ImportantMark(cls) \o minus \o ConfigPrefix \o body \o val
      xOrY == IF hasX THEN "x" ELSE "y"
      side == IF hasT THEN "t" ELSE IF hasR THEN "r" ELSE IF hasB THEN "b" ELSE "l"
      replacedCorners == IF hasT THEN {"tl", "tr"} ELSE IF hasR THEN {"tr", "br"}
                         ELSE IF hasB THEN {"bl", "br"} ELSE {"tl", "bl"}
      keptCorners == IF hasT THEN {"bl", "br"} ELSE IF hasR THEN {"tl", "bl"}
                     ELSE IF hasB THEN {"tl", "tr"} ELSE {"tr", "br"}
      isReplacedAxis(c) == IF hasX THEN isLR(c) ELSE isTB(c)
      isKeptAxis(c) == IF hasY THEN isLR(c) ELSE isTB(c)
      isReplacedCorner(c) == c.shorthand \in replacedCorners
      isKeptCorner(c) == c.shorthand \in keptCorners
  IN  IF hasAll
      THEN LET patchedName == patched(getBodyByShorthand(targetGroups, parentType, "all"))
           IN  [validated |-> <<[cls EXCEPT !.name = patchedName, !.shorthand = "all"]>>,
                troubles |-> <<[classnames |-> Names(sameVariantAndValue),
                                shorthand |-> patchedName]>>]
      ELSE IF hasY \/ hasX
      THEN LET patchedName == patched(getBodyByShorthand(targetGroups, parentType, xOrY))
           IN  [validated |-> KeepOrReplace(sameVariantAndValue, 1,
                                            SelectSeq(sameVariantAndValue, isKeptAxis),
                                            FALSE, patchedName, xOrY),
                troubles |-> <<[classnames |-> Names(SelectSeq(sameVariantAndValue, isReplacedAxis)),
                                shorthand |-> patchedName]>>]
      ELSE IF supportCorners /\ (hasT \/ hasR \/ hasB \/ hasL)
      THEN LET patchedName == patched(getBodyByShorthand(targetGroups, parentType, side))
           IN  [validated |-> KeepOrReplace(sameVariantAndValue, 1,
                                            SelectSeq(sameVariantAndValue, isKeptCorner),
                                            FALSE, patchedName, side),
                troubles |-> <<[classnames |-> Names(SelectSeq(sameVariantAndValue, isReplacedCorner)),
                                shorthand |-> patchedName]>>]
      ELSE [validated |-> sameVariantAndValue, troubles |-> <<>>]

\* for (const cls of sameType), from element i on, with checkedVariantsValue
RECURSIVE SameTypeLoop(_, _, _, _, _)
SameTypeLoop(sameType, i, checkedVariantsValue, parentType, acc) ==
  IF i > Len(sameType) THEN acc
  ELSE LET cls == sameType[i]
           key == cls.variants \o ImportantMark(cls) \o cls.value
           same(v) == ~(v.variants # cls.variants \/ v.value # cls.value
                          \/ v.important # cls.important)
           sameVariantAndValue == SelectSeq(sameType, same)
           out == Collapse(cls, sameVariantAndValue, parentType)
       IN  IF key \in checkedVariantsValue
           THEN SameTypeLoop(sameType, i + 1, checkedVariantsValue, parentType, acc)
           ELSE IF Len(sameVariantAndValue) = 1
           THEN SameTypeLoop(sameType, i + 1, checkedVariantsValue \cup {key}, parentType,
                             [acc EXCEPT !.validated = Append(@, cls)])
           ELSE SameTypeLoop(sameType, i + 1, checkedVariantsValue \cup {key}, parentType,
                             [validated |-> acc.validated \o out.validated,
                              troubles |-> acc.troubles \o out.troubles])

\* for (const classname of remaining), from element i on, with checkedGroups
RECURSIVE SameGroupPhase(_, _, _, _)
SameGroupPhase(remaining, i, checkedGroups, acc) ==
  IF i > Len(remaining) THEN acc
  ELSE LET classname == remaining[i]
           sameParent(c) == c.parentType = classname.parentType
       IN  IF classname.parentType = ""
           THEN SameGroupPhase(remaining, i + 1, checkedGroups,
                               [acc EXCEPT !.validated = Append(@, classname)])
           ELSE IF classname.parentType \in checkedGroups
           THEN SameGroupPhase(remaining, i + 1, checkedGroups, acc)
           ELSE SameGroupPhase(remaining, i + 1, checkedGroups \cup {classname.parentType},
                               SameTypeLoop(SelectSeq(remaining, sameParent), 1, {},
                                            classname.parentType, acc))

\* validated.sort((a, b) => a.index < b.index ? -1 : 1): insertion of each
\* element behind the elements whose index is not greater
RECURSIVE SortByIndex(_)
SortByIndex(seq) ==
  IF seq = <<>> THEN <<>>
  ELSE LET rest == SortByIndex(SubSeq(seq, 1, Len(seq) - 1))
           x == seq[Len(seq)]
           notAfter(y) == ~(x.index < y.index)
           after(y) == x.index < y.index
       IN  SelectSeq(rest, notAfter) \o <<x>> \o SelectSeq(rest, after)

\* the validated attribute value, rebuilt from union and the whitespaces
RECURSIVE JoinUnion(_, _, _, _, _)
JoinUnion(union, i, whitespaces, headSpace, tailSpace) ==
  IF i >= Len(union) THEN <<>>
  ELSE LET isLast == i = Len(union) - 1
           w == WhitespaceAt(whitespaces, i)
           cls == union[i + 1]
       IN  (IF headSpace THEN w \o cls ELSE IF isLast THEN cls ELSE cls \o w)
             \o (IF tailSpace /\ isLast THEN LastWhitespace(whitespaces) ELSE <<>>)
             \o JoinUnion(union, i + 1, whitespaces, headSpace, tailSpace)

\* const union = validated.map(...) and the validated attribute value
ValidatedValue(validated, ex) ==
  LET union == [k \in 1..Len(validated) |->
                  validated[k].leading \o validated[k].name \o validated[k].trailing]
  IN  IF Len(union) = 1
      THEN (IF ex.headSpace THEN ex.whitespaces[1] ELSE <<>>) \o union[1]
             \o (IF ex.tailSpace THEN LastWhitespace(ex.whitespaces) ELSE <<>>)
      ELSE JoinUnion(union, 0, ex.whitespaces, ex.headSpace, ex.tailSpace)

\* for (const issue of troubles): a report for each trouble when the
\* validated value differs from the original one (string literal: the
\* template prefix and suffix are '')
ReportTroubles(original, troubles, value) ==
  [reports |-> IF original # value THEN troubles ELSE <<>>, fixed |-> value]

\* the classnames of the same parent type, after the complex equivalences
SameGroupAfter(complex) ==
  SameGroupPhase(complex.remaining, 1, {},
                 [validated |-> complex.validated, troubles |-> complex.troubles])

SortAndReport(original, grouped, ex) ==
  ReportTroubles(original, grouped.troubles,
                 ValidatedValue(SortByIndex(grouped.validated), ex))

ParseAll(classNames) ==
  [k \in 1..Len(classNames) |-> parseClassname(classNames[k], targetGroups, k - 1)]

CheckExtracted(original, ex) ==
  IF Len(ex.classNames) <= 1
  THEN [reports |-> <<>>, fixed |-> original]
  ELSE SortAndReport(original,
                     SameGroupAfter(ComplexPhase([remaining |-> ParseAll(ex.classNames),
                                                  validated |-> <<>>,
                                                  troubles |-> <<>>], 1)),
                     ex)

\* the callback of parseForShorthandCandidates on the value of a string
\* literal: the reports it makes and the text its fix writes
parseForShorthandCandidates(originalClassNamesValue) ==
  CheckExtracted(originalClassNamesValue,
                 extractClassnamesFromValue(originalClassNamesValue))

(***************************************************************************)
(* getGroups / getGroupIndex / getArbitraryProperty (util/groupMethods.ts) *)
(***************************************************************************)
\* The default groups: the leaf of the arbitrary properties, whose template
\* ${arbitraryProperties} becomes (\[(.*)\]), ahead of the target groups.
defaultGroups ==
  << Node("Core Concepts",
       << [type |-> "Arbitrary properties", leaf |-> TRUE, body |-> <<>>,
           configKey |-> "arbitraryProperties", negative |-> FALSE, shorthand |-> "",
           optionalValue |-> FALSE] >>) >> \o targetGroups

\* the concatenation of the sequences of a sequence
RECURSIVE Flatten(_)
Flatten(seqs) == IF seqs = <<>> THEN <<>> ELSE seqs[1] \o Flatten(Tail(seqs))

\* getGroups: the leaves of the first, second and third level, in order
getGroups(groupsConfig) ==
  LET third(prop) == SelectSeq(prop.members, LAMBDA m : m.leaf)
      second(group) ==
        Flatten([k \in 1..Len(group.members) |->
                   IF group.members[k].leaf THEN <<group.members[k]>>
                   ELSE third(group.members[k])])
  IN  Flatten([k \in 1..Len(groupsConfig) |->
                 IF groupsConfig[k].leaf THEN <<groupsConfig[k]>>
                 ELSE second(groupsConfig[k])])

\* arr.findIndex(...) from position k on: the index counted from 0, or -1
RECURSIVE FindGroupIndex(_, _, _)
FindGroupIndex(classSuffix, arr, k) ==
  IF k > Len(arr) THEN -1
  ELSE IF LeafMatch(classSuffix, arr[k], "").matched THEN k - 1
  ELSE FindGroupIndex(classSuffix, arr, k + 1)

getGroupIndex(name, arr) == FindGroupIndex(getSuffix(name), arr, 1)

\* [a-z-]
PropertyChars == WordChars \ {"0", "1", "2", "3", "4", "5", "6", "7", "8", "9"}

\* the length of the maximal run of [a-z-] at the head of s
RECURSIVE PropertyRun(_)
PropertyRun(s) ==
  IF s # <<>> /\ s[1] \in PropertyChars THEN 1 + PropertyRun(Tail(s)) ELSE 0

\* /^\[([a-z-]*):\.*/.exec(name)?.[1] ?? ""
getArbitraryProperty(name) ==
  IF name # <<>> /\ name[1] = "["
  THEN LET n == PropertyRun(Tail(name))
       IN  IF n + 2 <= Len(name) /\ name[n + 2] = ":" THEN SubSeq(name, 2, n + 1) ELSE <<>>
  ELSE <<>>

(***************************************************************************)
(* new RegExp(pattern) and RegExp.prototype.test, for the patterns that    *)
(* no-contradicting-classname builds from the classnames of the model:     *)
(* '^', literal characters, character classes [...] and the quantifier '*' *)
(***************************************************************************)
ambiguousArbitraryValuesOrClasses ==
  <<"(", "\\", "[", "(", ".", "*", ":", ")", ")", "|",
    "(", "^", "(", "(", "?", "!", ":", ")", ".", ")", "*", "$", ")">>

\* the position of the first ']' of p behind position i, 0 when there is none
RECURSIVE ClassEnd(_, _)
ClassEnd(p, i) ==
  IF i > Len(p) THEN 0 ELSE IF p[i] = "]" THEN i ELSE ClassEnd(p, i + 1)

\* the pattern from position i on, parsed into items [set, star]; error is
\* the SyntaxError of the constructor (nothing to repeat, unterminated class)
RECURSIVE ParsePattern(_, _, _)
ParsePattern(p, i, items) ==
  IF i > Len(p) THEN [error |-> FALSE, items |-> items]
  ELSE IF p[i] = "*"
  THEN IF items = <<>> \/ items[Len(items)].star
       THEN [error |-> TRUE, items |-> items]
       ELSE ParsePattern(p, i + 1, [items EXCEPT ![Len(items)].star = TRUE])
  ELSE IF p[i] = "["
  THEN IF ClassEnd(p, i + 1) = 0
       THEN [error |-> TRUE, items |-> items]
       ELSE ParsePattern(p, ClassEnd(p, i + 1) + 1,
                         Append(items,
                                [set |-> {p[j] : j \in (i + 1)..(ClassEnd(p, i + 1) - 1)},
                                 star |-> FALSE]))
  ELSE ParsePattern(p, i + 1, Append(items, [set |-> {p[i]}, star |-> FALSE]))

\* new RegExp(pattern)
NewRegExp(pattern) ==
  IF pattern = ambiguousArbitraryValuesOrClasses
  THEN [error |-> FALSE, ambiguous |-> TRUE, anchored |-> FALSE, items |-> <<>>]
  ELSE LET anchored == pattern # <<>> /\ pattern[1] = "^"
           parsed == ParsePattern(pattern, IF anchored THEN 2 ELSE 1, <<>>)
       IN  [error |-> parsed.error, ambiguous |-> FALSE, anchored |-> anchored,
            items |-> parsed.items]

\* the items from k on match s from just behind position pos
RECURSIVE MatchItems(_, _, _, _)
MatchItems(items, k, s, pos) ==
  IF k > Len(items) THEN TRUE
  ELSE IF items[k].star
  THEN \E n \in 0..(Len(s) - pos) :
         /\ \A j \in 1..n : s[pos + j] \in items[k].set
         /\ MatchItems(items, k + 1, s, pos + n)
  ELSE /\ pos < Len(s)
       /\ s[pos + 1] \in items[k].set
       /\ MatchItems(items, k + 1, s, pos + 1)

\* re.test(s); the ambiguous pattern matches a '[' with a ':' somewhere
\* behind it, or a string without any ':'
RegExpTest(re, s) ==
  IF re.ambiguous
  THEN \/ \E i \in 1..Len(s) : \E j \in (i + 1)..Len(s) : s[i] = "[" /\ s[j] = ":"
       \/ \A i \in 1..Len(s) : s[i] # ":"
  ELSE \E start \in (IF re.anchored THEN {0} ELSE 0..Len(s)) :
         MatchItems(re.items, 1, s, start)

(***************************************************************************)
(* parseNodeRecursive (util/ast.ts)                                        *)
(***************************************************************************)
\* uniq of es-toolkit: the first occurrence of every element, in order
RECURSIVE uniq(_)
uniq(arr) ==
  IF arr = <<>> THEN <<>>
  ELSE LET front == uniq(SubSeq(arr, 1, Len(arr) - 1))
       IN  IF \E k \in 1..Len(front) : front[k] = arr[Len(arr)]
           THEN front ELSE Append(front, arr[Len(arr)])

\* the end of parseNodeRecursive on a string value: the call of the callback,
\* isolated standing for a targetNode of null; no call for an empty list
CallbackWith(classNames, isolate) ==
  IF classNames = <<>> THEN <<>>
  ELSE << [classNames |-> classNames, isolated |-> isolate] >>

CallbackOn(originalClassNamesValue, isolate) ==
  CallbackWith(uniq(extractClassnamesFromValue(originalClassNamesValue).classNames),
               isolate)

\* parseNodeRecursive(rootNode, childNode, cb, skipConditional, isolate): the
\* calls of cb, in order. rootValue is extractValueFromNode(rootNode), read
\* when childNode is null.
RECURSIVE parseNodeRecursive(_, _, _, _)
parseNodeRecursive(rootValue, childNode, skipConditional, isolate) ==
  IF childNode.type = "null" THEN CallbackOn(rootValue, FALSE)
  ELSE IF childNode.type = "ConditionalExpression"
  THEN parseNodeRecursive(rootValue, childNode.consequent, skipConditional,
                          skipConditional \/ isolate)
       \o parseNodeRecursive(rootValue, childNode.alternate, skipConditional,
                             skipConditional \/ isolate)
  ELSE IF childNode.type = "LogicalExpression"
  THEN parseNodeRecursive(rootValue, childNode.right, skipConditional,
                          skipConditional \/ isolate)
  ELSE IF childNode.type = "ArrayExpression"
  THEN Flatten([k \in 1..Len(childNode.elements) |->
                  parseNodeRecursive(rootValue, childNode.elements[k], skipConditional,
                                     skipConditional \/ isolate)])
  ELSE IF childNode.type = "TemplateLiteral"
  THEN Flatten([k \in 1..Len(childNode.expressions) |->
                  parseNodeRecursive(rootValue, childNode.expressions[k], skipConditional,
                                     skipConditional \/ isolate)])
       \o Flatten([k \in 1..Len(childNode.quasis) |->
                     parseNodeRecursive(rootValue, childNode.quasis[k], skipConditional,
                                        isolate)])
  ELSE IF childNode.type = "TemplateElement"
  THEN CallbackOn(childNode.value.raw, isolate)
  ELSE CallbackOn(childNode.value, isolate)

(***************************************************************************)
(* no-contradicting-classname                                              *)
(***************************************************************************)
\* const groups = getGroups(defaultGroups, mergedConfig)
groups == getGroups(defaultGroups)

\* the classnames pushed into the slot of index idx, given the index that
\* getGroupIndex returned for every classname
SlotOf(classNames, indexes, idx) ==
  LET at == SelectSeq([k \in 1..Len(classNames) |-> k], LAMBDA k : indexes[k] = idx)
  IN  [j \in 1..Len(at) |-> classNames[at[j]]]

SortedBy(classNames, indexes) ==
  [i \in 1..Len(groups) |-> SlotOf(classNames, indexes, i - 1)]

\* getGroupIndex(className, groups) of every classname, in order
RECURSIVE GroupIndexes(_)
GroupIndexes(classNames) ==
  IF classNames = <<>> THEN <<>>
  ELSE <<getGroupIndex(classNames[1], groups)>> \o GroupIndexes(Tail(classNames))

\* sorted: the classnames of every group, in the order of groups
Sorted(classNames) == SortedBy(classNames, GroupIndexes(classNames))

\* sorted.filter(slot => slot.length > 1)
SortedGroups(classNames) == SelectSeq(Sorted(classNames), LAMBDA slot : Len(slot) > 1)

\* sortedGroups.findIndex(slot => getArbitraryProperty(getSuffix(slot[0])) !== "")
ArbitraryPropsGroupIndex(sortedGroups) ==
  LET hits == {k \in 1..Len(sortedGroups) :
                 getArbitraryProperty(getSuffix(sortedGroups[k][1])) # <<>>}
  IN  IF hits = {} THEN -1 ELSE (CHOOSE k \in hits : \A j \in hits : k <= j) - 1

\* the key of the variant group of a classname: prefix + arbitraryProp in the
\* group of the arbitrary properties, rePrefix elsewhere
VariantKey(cls, isArbitrary) ==
  IF isArbitrary
  THEN getPrefix(cls) \o getArbitraryProperty(Drop(cls, Len(getPrefix(cls))))
  ELSE IF getPrefix(cls) = <<>> THEN ambiguousArbitraryValuesOrClasses
  ELSE <<"^">> \o getPrefix(cls)

\* the push of name into the variant group keyed by key
PushVariant(variants, key, name) ==
  IF \E k \in 1..Len(variants) : variants[k].prefix = key
  THEN [k \in 1..Len(variants) |->
          IF variants[k].prefix = key
          THEN [variants[k] EXCEPT !.name = Append(@, name)] ELSE variants[k]]
  ELSE Append(variants, [prefix |-> key, name |-> <<name>>])

\* the loop over the classnames of a group, from classname i on
RECURSIVE VariantsOf(_, _, _, _)
VariantsOf(group, i, isArbitrary, variants) ==
  IF i > Len(group) THEN variants
  ELSE VariantsOf(group, i + 1, isArbitrary,
                  PushVariant(variants, VariantKey(group[i], isArbitrary),
                              Drop(group[i], Len(getPrefix(group[i])))))

\* the outcome of a run followed by a later one, which a throw cuts short
Then(first, later) ==
  IF first.thrown THEN first
  ELSE [reports |-> first.reports \o later.reports, thrown |-> later.thrown]

NoReports == [reports |-> <<>>, thrown |-> FALSE]

\* the loop over potentialTroubles from i on: new RegExp(prefix) may throw,
\* otherwise the report lists group.filter(c => re.test(c))
RECURSIVE ReportVariants(_, _, _)
ReportVariants(potentialTroubles, i, group) ==
  IF i > Len(potentialTroubles) THEN NoReports
  ELSE IF NewRegExp(potentialTroubles[i].prefix).error
  THEN [reports |-> <<>>, thrown |-> TRUE]
  ELSE Then([reports |->
               << SelectSeq(group,
                    LAMBDA c : RegExpTest(NewRegExp(potentialTroubles[i].prefix), c)) >>,
             thrown |-> FALSE],
            ReportVariants(potentialTroubles, i + 1, group))

\* the loop over sortedGroups, from the group of index groupIndex on
RECURSIVE CheckGroups(_, _, _, _)
CheckGroups(sortedGroups, groupIndex, arbitraryPropsGroupIndex, nodeIsNull) ==
  IF groupIndex >= Len(sortedGroups) THEN NoReports
  ELSE Then(IF nodeIsNull THEN NoReports
            ELSE ReportVariants(
                   SelectSeq(VariantsOf(sortedGroups[groupIndex + 1], 1,
                                        groupIndex = arbitraryPropsGroupIndex, <<>>),
                             LAMBDA v : Len(v.name) > 1),
                   1, sortedGroups[groupIndex + 1]),
            CheckGroups(sortedGroups, groupIndex + 1, arbitraryPropsGroupIndex, nodeIsNull))

\* parseForContradictingClassNames(classNames, node): the reports made and
\* whether the call threw
CheckSorted(sortedGroups, nodeIsNull) ==
  CheckGroups(sortedGroups, 0, ArbitraryPropsGroupIndex(sortedGroups), nodeIsNull)

parseForContradictingClassNames(classNames, nodeIsNull) ==
  CheckSorted(SortedGroups(classNames), nodeIsNull)

\* the checks one after the other, from check i on
RECURSIVE RunChecks(_, _)
RunChecks(checks, i) ==
  IF i > Len(checks) THEN NoReports
  ELSE Then(parseForContradictingClassNames(checks[i].classNames, checks[i].nodeIsNull),
            RunChecks(checks, i + 1))

\* the visitor JSXAttribute: the callback is parseForContradictingClassNames
\* itself, so an isolated list comes with a null node
JSXAttributeChecks(node) ==
  LET calls == IF node.literal THEN parseNodeRecursive(node.value, [type |-> "null"], TRUE, FALSE)
               ELSE parseNodeRecursive(<<>>, node.expression, TRUE, FALSE)
  IN  [k \in 1..Len(calls) |->
         [classNames |-> calls[k].classNames, nodeIsNull |-> calls[k].isolated]]

\* the visitor CallExpression: pushClasses checks an isolated list at once
\* and gathers the others, which are checked after the last argument
CallExpressionChecks(node) ==
  LET calls == Flatten([k \in 1..Len(node.arguments) |->
                          parseNodeRecursive(<<>>, node.arguments[k], TRUE, FALSE)])
      alone == SelectSeq(calls, LAMBDA c : c.isolated)
      gathered == SelectSeq(calls, LAMBDA c : ~c.isolated)
  IN  [k \in 1..Len(alone) |-> [classNames |-> alone[k].classNames, nodeIsNull |-> FALSE]]
      \o << [classNames |-> Flatten([k \in 1..Len(gathered) |-> gathered[k].classNames]),
             nodeIsNull |-> FALSE] >>

\* extractTagName: <<name>> when the tag is an identifier, a member
\* expression whose object is an identifier or a call whose callee is an
\* identifier, <<>> (undefined) otherwise
extractTagName(tag) ==
  IF tag.type = "Identifier" THEN <<tag.name>>
  ELSE IF tag.type = "MemberExpression" /\ tag.object.type = "Identifier"
  THEN <<tag.object.name>>
  ELSE IF tag.type = "CallExpression" /\ tag.callee.type = "Identifier"
  THEN <<tag.callee.name>>
  ELSE <<>>

\* tags.includes(tagName)
Includes(list, x) == \E k \in 1..Len(list) : list[k] = x

\* the test of the visitor TaggedTemplateExpression of the rule:
\* !tagName || !tags.includes(tagName)
SkipsTag(tag, tags) ==
  LET tagName == extractTagName(tag)
  IN  tagName = <<>> \/ tagName[1] = "" \/ ~Includes(tags, tagName[1])

\* the visitor TaggedTemplateExpression: nothing for a tag that is not
\* listed, otherwise as the visitor CallExpression on the quasi
TaggedTemplateChecks(node, tags) ==
  IF SkipsTag(node.tag, tags) THEN <<>>
  ELSE LET calls == parseNodeRecursive(<<>>, node.quasi, TRUE, FALSE)
           alone == SelectSeq(calls, LAMBDA c : c.isolated)
           gathered == SelectSeq(calls, LAMBDA c : ~c.isolated)
       IN  [k \in 1..Len(alone) |-> [classNames |-> alone[k].classNames, nodeIsNull |-> FALSE]]
           \o << [classNames |-> Flatten([k \in 1..Len(gathered) |-> gathered[k].classNames]),
                  nodeIsNull |-> FALSE] >>

(***************************************************************************)
(* Specification SpecParse: parseClassname called on composed classnames   *)
(***************************************************************************)
\* every leaf of a list of groups, in taxonomy order
RECURSIVE LeavesOf(_)
LeavesOf(nodes) ==
  IF nodes = <<>> THEN <<>>
  ELSE LET n == nodes[1]
       IN  (IF n.leaf THEN <<n>> ELSE LeavesOf(n.members)) \o LeavesOf(Tail(nodes))

TargetLeaves == {LeavesOf(targetGroups)[i] : i \in 1..Len(LeavesOf(targetGroups))}

\* variant prefixes of the composed classnames: none, md:, lg:md:, [&>*]:
ParseVariants ==
  {<<>>, <<"m", "d", ":">>, <<"l", "g", ":", "m", "d", ":">>,
   <<"[", "&", ">", "*", "]", ":">>}

\* arbitrary values of the composed classnames: [0], [a:b] and [x(y:z)]
ArbitraryValues ==
  {<<"[", "0", "]">>, <<"[", "a", ":", "b", "]">>,
   <<"[", "x", "(", "y", ":", "z", ")", "]">>}

\* classnames that no target leaf matches
UnknownNames == {<<"f", "l", "e", "x">>, <<"!", "f", "l", "e", "x">>}

Spaces == {<<>>, <<" ">>}

\* the parts a classname is composed of; kind is "pos" (v ! body - val),
\* "neg" (v ! - body - val), "bare" (v ! body) or "raw" (v ! text)
ParseParts ==
  {[kind |-> k, v |-> v, imp |-> imp, body |-> l.body, prop |-> l.configKey,
    negative |-> l.negative, optionalValue |-> l.optionalValue, val |-> val,
    lead |-> lead, trail |-> trail] :
     k \in {"pos", "neg"}, v \in ParseVariants, imp \in {<<>>, <<"!">>},
     l \in TargetLeaves,
     val \in UNION {{e.key : e \in ThemeScale(p)} :
                      p \in {"margin", "padding", "borderRadius"}} \cup ArbitraryValues,
     lead \in Spaces, trail \in Spaces}
  \cup
  {[kind |-> "bare", v |-> v, imp |-> imp, body |-> l.body, prop |-> l.configKey,
    negative |-> l.negative, optionalValue |-> l.optionalValue, val |-> <<>>,
    lead |-> <<>>, trail |-> <<>>] :
     v \in ParseVariants, imp \in {<<>>, <<"!">>}, l \in TargetLeaves}
  \cup
  {[kind |-> "raw", v |-> v, imp |-> <<>>, body |-> n, prop |-> "",
    negative |-> FALSE, optionalValue |-> FALSE, val |-> <<>>,
    lead |-> lead, trail |-> trail] :
     v \in ParseVariants, n \in UnknownNames \cup {<<>>}, lead \in Spaces,
     trail \in Spaces}

\* the core a set of parts spells
CoreOf(parts) ==
  parts.v \o parts.imp \o
    (CASE parts.kind = "pos" -> parts.body \o <<"-">> \o parts.val
       [] parts.kind = "neg" -> <<"-">> \o parts.body \o <<"-">> \o parts.val
       [] OTHER -> parts.body)

NameOf(parts) == parts.lead \o CoreOf(parts) \o parts.trail

GroupsArg(g) ==
  CASE g = "target" -> targetGroups
    [] g = "overlap" -> overlapGroups
    [] OTHER -> <<>>

InitParse ==
  /\ IdleWorker
  /\ IdleArbitrary
  /\ IdleExtract
  /\ IdleSize
  /\ IdlePatch
  /\ IdleGroups
  /\ IdleTagged
  /\ IdleOptions
  /\ IdleNegative
  /\ IdleSort
  /\ IdleCache
  /\ IdleOrder
  /\ IdlePrefix
  /\ IdleShorthand
  /\ IdleConflict
  /\ prParts \in ParseParts
  /\ prName = NameOf(prParts)
  /\ prGroups \in {"target", "overlap", "none"}
  /\ prResult = EmptyParsed
  /\ prDone = FALSE

CallParseClassname ==
  /\ ~prDone
  /\ prResult' = parseClassname(prName, GroupsArg(prGroups), 0)
  /\ prDone' = TRUE
  /\ UNCHANGED <<prParts, prName, prGroups, gpVars, shVars, cfVars, ordVars, cpVars, soVars, ngVars, opVars, tgVars, grVars, pxVars, szVars, exVars, avVars, wkVars>>

NextParse == CallParseClassname

SpecParse == InitParse /\ [][NextParse]_vars


(***************************************************************************)
(* Properties of parseClassname                                            *)
(***************************************************************************)
\* the composed classname is variant prefix + stem + value, its suffix matched
\* by the leaf it was composed from, through the positive or the negative form
MatchesOwnLeaf(parts) ==
  \/ /\ parts.kind = "pos"
     /\ \/ parts.val \in PositiveKeys(parts.prop)
        \/ IsArbitraryOption(parts.prop, parts.val)
  \/ /\ parts.kind = "neg"
     /\ parts.imp = <<>>
     /\ parts.negative
     /\ \/ parts.val \in NegativeKeys(parts.prop)
        \/ IsArbitraryOption(parts.prop, parts.val)

\* C1: for a core v + b + val whose suffix b + val matches a leaf capturing
\* val, parseClassname returns variants = v, body = b, value = val; through
\* the negative form '-' + b + n it returns body = b and value = '-' + n.
C1_ParseRoundTrip ==
  (prDone /\ prGroups = "target" /\ MatchesOwnLeaf(prParts)) =>
    /\ prResult.variants = prParts.v
    /\ prResult.body =
         (IF prParts.kind = "pos" THEN prParts.imp ELSE <<>>) \o prParts.body \o <<"-">>
    /\ prResult.value =
         (IF prParts.kind = "pos" THEN <<>> ELSE <<"-">>) \o prParts.val

\* the same round trip on the classnames whose value holds no ':' behind a '('
C1_RoundTripWithoutParenColon ==
  (prDone /\ prGroups = "target" /\ MatchesOwnLeaf(prParts)
     /\ prParts.val # <<"[", "x", "(", "y", ":", "z", ")", "]">>) =>
    /\ prResult.variants = prParts.v
    /\ prResult.body =
         (IF prParts.kind = "pos" THEN prParts.imp ELSE <<>>) \o prParts.body \o <<"-">>
    /\ prResult.value =
         (IF prParts.kind = "pos" THEN <<>> ELSE <<"-">>) \o prParts.val

\* no leaf of the groups passed in matches the suffix of the core
Unmatched ==
  \/ prGroups = "none"
  \/ ~findSlot(getSuffix(prResult.name), GroupsArg(prGroups), 1).matched

C10_ImportantIffBang ==
  prDone =>
    (prResult.important <=>
       StartsWith(Drop(prResult.name, Len(prResult.variants)), <<"!">>))

\* C25: leading + name + trailing of the result equals the raw classname
\* and name neither begins nor ends with whitespace, also for a raw string
\* that consists only of whitespace (name is then empty).
C25_LeadingNameTrailingIsRaw ==
  prDone =>
    /\ prResult.leading \o prResult.name \o prResult.trailing = prName
    /\ prResult.name # <<>> =>
         (prResult.name[1] # " " /\ prResult.name[Len(prResult.name)] # " ")
    /\ (\A k \in 1..Len(prName) : prName[k] = " ") => prResult.name = <<>>

\* every leaf of a list of groups with the type of its parent, in taxonomy
\* order
RECURSIVE LeavesWithParent(_, _)
LeavesWithParent(nodes, parent) ==
  IF nodes = <<>> THEN <<>>
  ELSE LET n == nodes[1]
       IN  (IF n.leaf THEN << [leaf |-> n, parent |-> parent] >>
            ELSE LeavesWithParent(n.members, n.type))
             \o LeavesWithParent(Tail(nodes), parent)

\* the positions, in taxonomy order, of the leaves whose pattern matches the
\* suffix of the classname parsed
MatchingLeaves ==
  LET all == LeavesWithParent(GroupsArg(prGroups), "")
  IN  {k \in 1..Len(all) : LeafMatch(getSuffix(prResult.name), all[k].leaf, "").matched}

\* C22: parseClassname returns the first leaf, in depth-first taxonomy
\* order, whose pattern matches the whole suffix, never a later one, and
\* parentType is the type of the parent of that leaf.
C22_FirstMatchingLeafWins ==
  (prDone /\ MatchingLeaves # {}) =>
    LET all == LeavesWithParent(GroupsArg(prGroups), "")
        first == CHOOSE k \in MatchingLeaves : \A j \in MatchingLeaves : k <= j
        found == LeafMatch(getSuffix(prResult.name), all[first].leaf, all[first].parent)
    IN  /\ prResult.parentType = all[first].parent
        /\ prResult.shorthand = all[first].leaf.shorthand
        /\ prResult.value = found.value

\* m-4 has been parsed against the overlapping groups: three leaves match
\* it and the result is the leaf of Spacing, not the leaf of Margin
C22_Witness ==
  /\ prDone
  /\ prGroups = "overlap"
  /\ prResult.name = <<"m", "-", "4">>
  /\ Cardinality(MatchingLeaves) = 3
  /\ prResult.parentType = "Spacing"
  /\ prResult.shorthand = "signed"


(***************************************************************************)
(* Specification SpecShorthand: enforces-shorthand run on a class          *)
(* attribute, its fix applied, and the rule run again                      *)
(***************************************************************************)
MaxClasses == 4

\* the families of classnames the attribute is written from: a stem with its
\* variants, important mark, sign and value, and the whitespace that the
\* attribute begins and ends with
Families ==
  {[v |-> <<>>, imp |-> <<>>, minus |-> <<>>, stem |-> <<"m">>, val |-> <<"4">>,
    pad |-> <<>>],
   [v |-> <<"m", "d", ":">>, imp |-> <<>>, minus |-> <<>>, stem |-> <<"p">>, val |-> <<"2">>,
    pad |-> <<" ">>],
   [v |-> <<>>, imp |-> <<>>, minus |-> <<"-">>, stem |-> <<"m">>, val |-> <<"4">>,
    pad |-> <<" ">>],
   [v |-> <<>>, imp |-> <<"!">>, minus |-> <<>>, stem |-> <<"p">>, val |-> <<"4">>,
    pad |-> <<>>]}

AxisTags == {"all", "x", "y", "t", "r", "b", "l"}

EdgeTags == {"t", "r", "b", "l"}

\* the classname of family f with axis tag tag: mt-4, md:px-2, -mb-4, !p-4
EdgeName(f, tag) ==
  f.v \o f.imp \o f.minus \o f.stem \o (IF tag = "all" THEN <<>> ELSE <<tag>>)
    \o <<"-">> \o f.val

\* a classname of the same group that differs from the family in its variants
OtherVariant(f) == <<"l", "g", ":">> \o EdgeName(f, "t")

FamilyNames(f) == {EdgeName(f, tag) : tag \in AxisTags} \cup {OtherVariant(f)}

\* the classnames joined by single spaces
RECURSIVE JoinSpaces(_)
JoinSpaces(names) ==
  IF names = <<>> THEN <<>>
  ELSE IF Len(names) = 1 THEN names[1]
  ELSE names[1] \o <<" ">> \o JoinSpaces(Tail(names))

\* the attribute texts: up to MaxClasses classnames of one family
TextOf(f, names) == f.pad \o JoinSpaces(names) \o f.pad

MaxCornerClasses == 3

CornerTags == {"tl", "tr", "br", "bl"}

RadiusTags == {"all"} \cup EdgeTags \cup CornerTags

TagChars(tag) ==
  CASE tag = "tl" -> <<"t", "l">> [] tag = "tr" -> <<"t", "r">>
    [] tag = "br" -> <<"b", "r">> [] tag = "bl" -> <<"b", "l">>
    [] OTHER -> <<tag>>

\* the Border Radius classname with the given tag: rounded-lg, rounded-t-lg,
\* rounded-tl-lg
RadiusName(tag) ==
  <<"r", "o", "u", "n", "d", "e", "d">>
    \o (IF tag = "all" THEN <<>> ELSE <<"-">> \o TagChars(tag)) \o <<"-", "l", "g">>

RadiusNames == {RadiusName(tag) : tag \in RadiusTags}

MaxNeedleClasses == 3

\* classnames that are needles of the complex equivalences
NeedleNames ==
  {<<"o", "v", "e", "r", "f", "l", "o", "w", "-", "h", "i", "d", "d", "e", "n">>,
   <<"t", "e", "x", "t", "-", "e", "l", "l", "i", "p", "s", "i", "s">>,
   <<"w", "h", "i", "t", "e", "s", "p", "a", "c", "e", "-", "n", "o", "w", "r", "a", "p">>,
   <<"w", "-", "2">>,
   <<"h", "-", "2">>,
   <<"c", "o", "n", "t", "e", "n", "t", "-", "c", "e", "n", "t", "e", "r">>,
   <<"j", "u", "s", "t", "i", "f", "y", "-", "c", "e", "n", "t", "e", "r">>,
   <<"i", "t", "e", "m", "s", "-", "c", "e", "n", "t", "e", "r">>,
   <<"j", "u", "s", "t", "i", "f", "y", "-", "i", "t", "e", "m", "s", "-", "c", "e", "n", "t", "e", "r">>}

\* the attribute texts: up to MaxClasses classnames of one family of Margin
\* or Padding, up to MaxCornerClasses classnames of Border Radius, or up to
\* MaxNeedleClasses needles of the complex equivalences
InitShorthand ==
  /\ IdleWorker
  /\ IdleArbitrary
  /\ IdleExtract
  /\ IdleSize
  /\ IdlePatch
  /\ IdleGroups
  /\ IdleTagged
  /\ IdleOptions
  /\ IdleNegative
  /\ IdleSort
  /\ IdleCache
  /\ IdleOrder
  /\ IdlePrefix
  /\ IdleParse
  /\ IdleConflict
  /\ \/ \E f \in Families : \E n \in 0..MaxClasses :
          \E names \in [1..n -> FamilyNames(f)] : shText = TextOf(f, names)
     \/ \E n \in 1..MaxCornerClasses :
          \E names \in [1..n -> RadiusNames] : shText = JoinSpaces(names)
     \/ \E n \in 1..MaxNeedleClasses :
          \E names \in [1..n -> NeedleNames] : shText = JoinSpaces(names)
  /\ shReports = <<>>
  /\ shFixed = <<>>
  /\ shPc = "ready"

\* the rule runs on the attribute
LintShorthand ==
  /\ shPc = "ready"
  /\ LET out == parseForShorthandCandidates(shText)
     IN  /\ shReports' = out.reports
         /\ shFixed' = out.fixed
  /\ shPc' = "linted"
  /\ UNCHANGED <<shText, gpVars, prVars, cfVars, ordVars, cpVars, soVars, ngVars, opVars, tgVars, grVars, pxVars, szVars, exVars, avVars, wkVars>>

\* the fix of a report replaces the attribute's text; the rule will run again
ApplyShorthandFix ==
  /\ shPc = "linted"
  /\ shReports # <<>>
  /\ shText' = shFixed
  /\ shReports' = <<>>
  /\ shFixed' = <<>>
  /\ shPc' = "ready"
  /\ UNCHANGED <<gpVars, prVars, cfVars, ordVars, cpVars, soVars, ngVars, opVars, tgVars, grVars, pxVars, szVars, exVars, avVars, wkVars>>

NextShorthand == LintShorthand \/ ApplyShorthandFix

SpecShorthand == InitShorthand /\ [][NextShorthand]_vars

(***************************************************************************)
(* Properties of enforces-shorthand                                        *)
(***************************************************************************)
ClassNamesOf(text) == extractClassnamesFromValue(text).classNames

ClassSetOf(text) == {ClassNamesOf(text)[k] : k \in 1..Len(ClassNamesOf(text))}

\* the axis that the two edges left of EdgeTags \ {missing} complete, and the
\* edge that stays alone
CompleteAxis(missing) == IF missing \in {"l", "r"} THEN "y" ELSE "x"

LoneEdge(missing) ==
  CASE missing = "l" -> "r" [] missing = "r" -> "l" [] missing = "t" -> "b" [] OTHER -> "t"

\* the four edges of a family, and nothing else, are replaced by its 'all'
\* shorthand in one report
FourEdgesCollapse(f, names, fixedNames) ==
  {names[k] : k \in 1..Len(names)} = {EdgeName(f, t) : t \in EdgeTags} =>
    /\ fixedNames = <<EdgeName(f, "all")>>
    /\ shReports = <<[classnames |-> names, shorthand |-> EdgeName(f, "all")]>>

\* three of the four edges of a family, each once, and nothing else
ThreeEdges(f, missing, names) ==
  /\ Len(names) = 3
  /\ {names[k] : k \in 1..Len(names)} = {EdgeName(f, t) : t \in EdgeTags \ {missing}}

EdgesOf(tag) ==
  CASE tag = "all" -> EdgeTags [] tag = "x" -> {"l", "r"} [] tag = "y" -> {"t", "b"}
    [] OTHER -> {tag}

\* the corners that a Border Radius classname with the given tag sets
CornersOf(tag) ==
  CASE tag = "all" -> CornerTags [] tag = "t" -> {"tl", "tr"} [] tag = "r" -> {"tr", "br"}
    [] tag = "b" -> {"bl", "br"} [] tag = "l" -> {"tl", "bl"} [] OTHER -> {tag}

\* how general a composite is: all, an axis, a side
LevelOf(tag) ==
  IF tag = "all" THEN 3 ELSE IF tag \in {"x", "y"} THEN 2 ELSE IF tag \in EdgeTags THEN 1 ELSE 0

\* the axis tags of family f among the classnames
EdgeTagsIn(f, names) ==
  {tag \in AxisTags : \E k \in 1..Len(names) : names[k] = EdgeName(f, tag)}

RadiusTagsIn(names) ==
  {tag \in RadiusTags : \E k \in 1..Len(names) : names[k] = RadiusName(tag)}

\* the level of the most general composite derivable from the tags of a
\* bucket of Margin or Padding: all four edges, or the two edges of an axis
MostGeneralEdge(tags) ==
  LET covered == UNION {EdgesOf(tag) : tag \in tags}
  IN  IF covered = EdgeTags THEN 3
      ELSE IF {"l", "r"} \subseteq covered \/ {"t", "b"} \subseteq covered THEN 2
      ELSE 0

\* the same for a bucket of Border Radius: all four corners, or the two
\* corners of a side
MostGeneralCorner(tags) ==
  LET covered == UNION {CornersOf(tag) : tag \in tags}
  IN  IF covered = CornerTags THEN 3
      ELSE IF \E side \in EdgeTags : CornersOf(side) \subseteq tags THEN 1
      ELSE 0

\* the number of classnames of the text that are in the set
CountIn(names, set) == Cardinality({k \in 1..Len(names) : names[k] \in set})

\* C11 for a text of family f: no report proposes a composite less general
\* than the most general derivable one; 'all' is proposed when the edges
\* of several classnames make it up, an axis when its two edges are there
EdgePrecedence(f, names) ==
  LET tags == EdgeTagsIn(f, names)
  IN  /\ \A k \in 1..Len(shReports) :
           \E tag \in AxisTags :
             /\ shReports[k].shorthand = EdgeName(f, tag)
             /\ LevelOf(tag) >= MostGeneralEdge(tags)
      /\ (MostGeneralEdge(tags) = 3 /\ CountIn(names, {EdgeName(f, t) : t \in AxisTags}) >= 2)
           => \E k \in 1..Len(shReports) : shReports[k].shorthand = EdgeName(f, "all")
      /\ (MostGeneralEdge(tags) = 2 /\ {"l", "r"} \subseteq tags)
           => \E k \in 1..Len(shReports) : shReports[k].shorthand = EdgeName(f, "x")
      /\ (MostGeneralEdge(tags) = 2 /\ {"t", "b"} \subseteq tags)
           => \E k \in 1..Len(shReports) : shReports[k].shorthand = EdgeName(f, "y")

\* C11 for a text of Border Radius: 'all' when the four corners are set by
\* several classnames, otherwise a side when the two corners of a side are
\* there
CornerPrecedence(names) ==
  LET tags == RadiusTagsIn(names)
  IN  /\ \A k \in 1..Len(shReports) :
           \E tag \in {"all"} \cup EdgeTags :
             /\ shReports[k].shorthand = RadiusName(tag)
             /\ LevelOf(tag) >= MostGeneralCorner(tags)
      /\ (MostGeneralCorner(tags) = 3 /\ Len(names) >= 2)
           => \E k \in 1..Len(shReports) : shReports[k].shorthand = RadiusName("all")
      /\ MostGeneralCorner(tags) = 1
           => \E k \in 1..Len(shReports) : \E side \in EdgeTags :
                shReports[k].shorthand = RadiusName(side)

IsTextOf(names, set) == \A k \in 1..Len(names) : names[k] \in set

\* C11: within one bucket the most general derivable composite is chosen:
\* 'all' when it is derivable, otherwise the x or y axis, otherwise (Border
\* Radius) a side built from two corners; no report proposes a composite less
\* general than one that is derivable.
C11_MostGeneralComposite ==
  shPc = "linted" =>
    /\ \A f \in Families :
         (ClassNamesOf(shText) # <<>> /\ IsTextOf(ClassNamesOf(shText), FamilyNames(f)))
           => EdgePrecedence(f, ClassNamesOf(shText))
    /\ (ClassNamesOf(shText) # <<>> /\ IsTextOf(ClassNamesOf(shText), RadiusNames))
         => CornerPrecedence(ClassNamesOf(shText))

\* the rule has run on two corners of the top side and a third corner, and
\* has proposed the top side for the two
C11_Witness ==
  /\ shPc = "linted"
  /\ ClassNamesOf(shText) = <<RadiusName("tl"), RadiusName("tr"), RadiusName("bl")>>
  /\ shReports = <<[classnames |-> <<RadiusName("tl"), RadiusName("tr")>>,
                    shorthand |-> RadiusName("t")]>>

\* the report proposes the shorthand of row e of the complex equivalences
ProposesRow(report, e) ==
  IF e.mode = "exact" THEN report.shorthand = e.shorthand
  ELSE StartsWith(report.shorthand, e.shorthand)

\* the classname matches the needle: it is the needle (exact mode), or the
\* needle followed by the value of the proposed shorthand (value mode)
MatchesNeedle(name, needle, report, e) ==
  IF e.mode = "exact" THEN name = needle
  ELSE name = needle \o Drop(report.shorthand, Len(e.shorthand))

\* every needle of row e is matched by a classname of the report of its own
NeedlesCovered(report, e) ==
  \E f \in [1..Len(e.needles) -> 1..Len(report.classnames)] :
    /\ \A a, b \in 1..Len(e.needles) : f[a] = f[b] => a = b
    /\ \A a \in 1..Len(e.needles) :
         MatchesNeedle(report.classnames[f[a]], e.needles[a], report, e)

\* C13: a complex equivalence is proposed only when every needle of its set
\* is matched by a distinct consumed classname (same variants and important
\* flag, and same value in value mode): a repeated classname, or a classname
\* that contains a needle as a substring, never stands in for a missing
\* needle.
C13_EveryNeedleMatched ==
  shPc = "linted" =>
    \A k \in 1..Len(shReports) : \A i \in 1..Len(complexEquivalences) :
      ProposesRow(shReports[k], complexEquivalences[i])
        => NeedlesCovered(shReports[k], complexEquivalences[i])

\* the classname is named in the originals list of a report
NamedInReport(name) ==
  \E k \in 1..Len(shReports) :
    \E j \in 1..Len(shReports[k].classnames) : shReports[k].classnames[j] = name

\* C12: the rule never silently drops a classname: when it reports, every
\* classname of the attribute either appears unchanged in the fixed text or
\* is named in the originals list of a report, also in a bucket of Border
\* Radius that mixes side tags and corner tags.
C12_NoSilentDrop ==
  (shPc = "linted" /\ shReports # <<>>) =>
    \A name \in ClassSetOf(shText) :
      name \in ClassSetOf(shFixed) \/ NamedInReport(name)

MaxConflictClasses == 3

MaxBranchClasses == 2

\* the classnames of the attribute texts: plain and variant widths, variants
\* with regular-expression metacharacters, arbitrary properties, a second
\* leaf and a classname of no leaf
ConflictNames ==
  {<<"w", "-", "2">>, <<"w", "-", "4">>, <<"s", "m", ":", "w", "-", "2">>,
   <<"s", "m", ":", "w", "-", "4">>,
   <<"s", "m", ":", "h", "o", "v", "e", "r", ":", "w", "-", "2">>,
   <<"*", ":", "w", "-", "2">>, <<"*", ":", "w", "-", "4">>,
   <<"[", "&", ">", "*", "]", ":", "p", "-", "2">>,
   <<"[", "&", ">", "*", "]", ":", "p", "-", "4">>, <<"[", "a", ":", "x", "]">>,
   <<"[", "a", ":", "y", "]">>, <<"s", "m", ":", "[", "a", ":", "x", "]">>,
   <<"h", "-", "2">>, <<"g", "r", "o", "w">>}

\* the classnames of the operands of an expression
BranchNames ==
  {<<"w", "-", "2">>, <<"w", "-", "4">>, <<"s", "m", ":", "w", "-", "2">>,
   <<"s", "m", ":", "w", "-", "4">>}

Literal(text) == [type |-> "Literal", value |-> text]

TemplateElement(text) == [type |-> "TemplateElement", value |-> [raw |-> text]]

\* the option tags of the rule
ConflictTags == <<"tw">>

\* the nodes visited: a literal attribute, an attribute holding an
\* expression, a call whose arguments are expressions, and a tagged template
\* with one expression
InitConflict ==
  /\ IdleWorker
  /\ IdleArbitrary
  /\ IdleExtract
  /\ IdleSize
  /\ IdlePatch
  /\ IdleGroups
  /\ IdleTagged
  /\ IdleOptions
  /\ IdleNegative
  /\ IdleSort
  /\ IdleCache
  /\ IdleOrder
  /\ IdlePrefix
  /\ IdleParse
  /\ IdleShorthand
  /\ \/ \E n \in 0..MaxConflictClasses : \E names \in [1..n -> ConflictNames] :
          \/ cfNode = [host |-> "JSXAttribute", literal |-> TRUE,
                       value |-> JoinSpaces(names)]
          \/ cfNode = [host |-> "JSXAttribute", literal |-> FALSE,
                       expression |-> Literal(JoinSpaces(names))]
          \/ cfNode = [host |-> "CallExpression",
                       arguments |-> <<Literal(JoinSpaces(names))>>]
     \/ \E n \in 0..MaxBranchClasses : \E m \in 0..MaxBranchClasses :
          \E left \in [1..n -> BranchNames] : \E right \in [1..m -> BranchNames] :
            \E e \in {[type |-> "ConditionalExpression",
                       consequent |-> Literal(JoinSpaces(left)),
                       alternate |-> Literal(JoinSpaces(right))],
                      [type |-> "LogicalExpression", right |-> Literal(JoinSpaces(right))],
                      [type |-> "ArrayExpression",
                       elements |-> <<Literal(JoinSpaces(left)), Literal(JoinSpaces(right))>>]} :
              \/ cfNode = [host |-> "JSXAttribute", literal |-> FALSE, expression |-> e]
              \/ cfNode = [host |-> "CallExpression", arguments |-> <<e>>]
              \/ cfNode = [host |-> "CallExpression",
                           arguments |-> <<Literal(JoinSpaces(left)), e>>]
     \/ \E n \in 0..MaxBranchClasses : \E m \in 0..MaxBranchClasses :
          \E left \in [1..n -> BranchNames] : \E right \in [1..m -> BranchNames] :
            \E e \in {[type |-> "ConditionalExpression",
                       consequent |-> Literal(JoinSpaces(right)),
                       alternate |-> Literal(<<>>)],
                      [type |-> "LogicalExpression", right |-> Literal(JoinSpaces(right))]} :
              \E tagName \in {"tw", "css"} :
                cfNode = [host |-> "TaggedTemplateExpression",
                          tag |-> [type |-> "Identifier", name |-> tagName],
                          quasi |-> [type |-> "TemplateLiteral",
                                     expressions |-> <<e>>,
                                     quasis |-> <<TemplateElement(JoinSpaces(left)),
                                                  TemplateElement(<<>>)>>]]
  /\ cfReports = <<>>
  /\ cfThrown = FALSE
  /\ cfPc = "ready"

\* the visitor JSXAttribute runs on a class attribute
VisitJSXAttribute ==
  /\ cfPc = "ready"
  /\ cfNode.host = "JSXAttribute"
  /\ LET out == RunChecks(JSXAttributeChecks(cfNode), 1)
     IN  /\ cfReports' = out.reports
         /\ cfThrown' = out.thrown
  /\ cfPc' = "done"
  /\ UNCHANGED <<cfNode, gpVars, prVars, shVars, ordVars, cpVars, soVars, ngVars, opVars, tgVars, grVars, pxVars, szVars, exVars, avVars, wkVars>>

\* the visitor CallExpression runs on a call of one of the callees
VisitCallExpression ==
  /\ cfPc = "ready"
  /\ cfNode.host = "CallExpression"
  /\ LET out == RunChecks(CallExpressionChecks(cfNode), 1)
     IN  /\ cfReports' = out.reports
         /\ cfThrown' = out.thrown
  /\ cfPc' = "done"
  /\ UNCHANGED <<cfNode, gpVars, prVars, shVars, ordVars, cpVars, soVars, ngVars, opVars, tgVars, grVars, pxVars, szVars, exVars, avVars, wkVars>>

\* the visitor TaggedTemplateExpression runs on a tagged template
VisitTaggedTemplateExpression ==
  /\ cfPc = "ready"
  /\ cfNode.host = "TaggedTemplateExpression"
  /\ LET out == RunChecks(TaggedTemplateChecks(cfNode, ConflictTags), 1)
     IN  /\ cfReports' = out.reports
         /\ cfThrown' = out.thrown
  /\ cfPc' = "done"
  /\ UNCHANGED <<cfNode, gpVars, prVars, shVars, ordVars, cpVars, soVars, ngVars, opVars, tgVars, grVars, pxVars, szVars, exVars, avVars, wkVars>>

NextConflict == VisitJSXAttribute \/ VisitCallExpression \/ VisitTaggedTemplateExpression

SpecConflict == InitConflict /\ [][NextConflict]_vars

(***************************************************************************)
(* Properties of no-contradicting-classname                                *)
(***************************************************************************)
\* the node holds one string: a literal attribute, a literal expression or a
\* call with one literal argument
IsSingleText(node) ==
  \/ /\ node.host = "JSXAttribute"
     /\ (node.literal \/ node.expression.type = "Literal")
  \/ /\ node.host = "CallExpression"
     /\ Len(node.arguments) = 1
     /\ node.arguments[1].type = "Literal"

SingleTextOf(node) ==
  IF node.host = "CallExpression" THEN node.arguments[1].value
  ELSE IF node.literal THEN node.value
  ELSE node.expression.value

\* the node holds one conditional expression
IsConditional(node) ==
  \/ /\ node.host = "JSXAttribute"
     /\ ~node.literal
     /\ node.expression.type = "ConditionalExpression"
  \/ /\ node.host = "CallExpression"
     /\ Len(node.arguments) = 1
     /\ node.arguments[1].type = "ConditionalExpression"

ConditionalOf(node) ==
  IF node.host = "CallExpression" THEN node.arguments[1] ELSE node.expression

Listed(report) == {report[k] : k \in 1..Len(report)}

\* some report lists both classnames
ReportedTogether(a, b) ==
  \E k \in 1..Len(cfReports) : {a, b} \subseteq Listed(cfReports[k])

\* a and b match the same leaf, one that holds utilities with a value, and
\* have the identical variant prefix
SameLeafAndPrefix(a, b) ==
  /\ getPrefix(a) = getPrefix(b)
  /\ getGroupIndex(a, groups) = getGroupIndex(b, groups)
  /\ getGroupIndex(a, groups) >= 0
  /\ groups[getGroupIndex(a, groups) + 1].configKey # "arbitraryProperties"

\* the characters a variant prefix is handed to new RegExp with unescaped
Metacharacters == {"*", "[", "]", "&", ">"}

PlainVariants(text) ==
  \A c \in ClassSetOf(text) : \A k \in 1..Len(getPrefix(c)) :
    getPrefix(c)[k] \notin Metacharacters

\* the pairs of C3 in the text of a node that holds one string
PairsReportedTogether(text) ==
  \A a \in ClassSetOf(text) : \A b \in ClassSetOf(text) :
    (a # b /\ SameLeafAndPrefix(a, b)) => ReportedTogether(a, b)

\* no report lists a classname that is only in one branch with a classname
\* that is only in the other
BranchesApart(e) ==
  \A a \in ClassSetOf(e.consequent.value) \ ClassSetOf(e.alternate.value) :
    \A b \in ClassSetOf(e.alternate.value) \ ClassSetOf(e.consequent.value) :
      ~ReportedTogether(a, b)

\* C3: two different classnames of one string that match the same leaf and
\* have the identical variant prefix are listed together by one report, and
\* classnames that are only in the two different branches of a conditional
\* expression are never listed together.
C3_SameLeafSamePrefixReported ==
  cfPc = "done" =>
    /\ IsSingleText(cfNode) => PairsReportedTogether(SingleTextOf(cfNode))
    /\ IsConditional(cfNode) => BranchesApart(ConditionalOf(cfNode))

\* what does hold of C3: the pairs are reported together when no variant
\* prefix of the string holds a metacharacter, and the branches stay apart
C3_ReportedWithPlainVariants ==
  cfPc = "done" =>
    /\ (IsSingleText(cfNode) /\ PlainVariants(SingleTextOf(cfNode)))
         => PairsReportedTogether(SingleTextOf(cfNode))
    /\ IsConditional(cfNode) => BranchesApart(ConditionalOf(cfNode))

\* C4: every report lists at least one classname, and a classname with a
\* variant prefix is listed only with classnames of the same variant prefix
\* and the same leaf.
C4_ReportListsOneSubBucket ==
  cfPc = "done" =>
    \A k \in 1..Len(cfReports) :
      /\ cfReports[k] # <<>>
      /\ \A a \in Listed(cfReports[k]) : \A b \in Listed(cfReports[k]) :
           getPrefix(a) # <<>> =>
             /\ getPrefix(b) = getPrefix(a)
             /\ getGroupIndex(b, groups) = getGroupIndex(a, groups)

\* the node holds one conditional or logical expression: in an attribute,
\* as the only argument of a call, or as the expression of a tagged
\* template whose tag is listed
HoldsBranches(node) ==
  \/ /\ node.host = "JSXAttribute"
     /\ ~node.literal
     /\ node.expression.type \in {"ConditionalExpression", "LogicalExpression"}
  \/ /\ node.host = "CallExpression"
     /\ Len(node.arguments) = 1
     /\ node.arguments[1].type \in {"ConditionalExpression", "LogicalExpression"}
  \/ /\ node.host = "TaggedTemplateExpression"
     /\ ~SkipsTag(node.tag, ConflictTags)

\* the texts of the branches of that expression
BranchTextsOf(node) ==
  LET e == IF node.host = "JSXAttribute" THEN node.expression
           ELSE IF node.host = "CallExpression" THEN node.arguments[1]
           ELSE node.quasi.expressions[1]
  IN  IF e.type = "ConditionalExpression" THEN {e.consequent.value, e.alternate.value}
      ELSE {e.right.value}

\* C17: two classnames of the same branch of a conditional or logical
\* expression that match the same leaf with the identical variant prefix are
\* reported together, whether the expression is in a class attribute, the
\* argument of a call of a callee, or in a tagged template.
C17_ConflictInBranchReported ==
  (cfPc = "done" /\ HoldsBranches(cfNode)) =>
    \A text \in BranchTextsOf(cfNode) : PairsReportedTogether(text)

\* C8: the visitor never throws, whatever the classnames of the node.
C8_NeverThrows == cfPc = "done" => ~cfThrown

(***************************************************************************)
(* getSortedClassNames (tailwind-api-utils.ts)                             *)
(***************************************************************************)
\* the order of a classname Tailwind generates no rule for
Null == -1

\* the order Tailwind gives a classname: one number for each classname it
\* knows (margin, width, then the variants), Null for the others
ClassOrder(name) ==
  CASE name = <<"m", "-", "2">> -> 1
    [] name = <<"w", "-", "2">> -> 2
    [] name = <<"s", "m", ":", "w", "-", "2">> -> 3
    [] OTHER -> Null

\* the greatest order that ClassOrder gives
MaxClassOrder == 3

\* this.context.getClassOrder(className)
getClassOrder(className) ==
  [k \in 1..Len(className) |-> <<className[k], ClassOrder(className[k])>>]

bigSign(bigIntValue) ==
  (IF bigIntValue > 0 THEN 1 ELSE 0) - (IF bigIntValue < 0 THEN 1 ELSE 0)

\* the one-character ellipsis, written as the name of its code point
HorizontalEllipsis == <<"U+2026">>

IsEllipsis(name) == name = <<".", ".", ".">> \/ name = HorizontalEllipsis

\* a comparator that puts the classnames without an order last
compareNullLast(A, Z) ==
  IF IsEllipsis(A[1]) THEN 1
  ELSE IF IsEllipsis(Z[1]) THEN -1
  ELSE IF A[2] = Z[2] THEN 0
  ELSE IF A[2] = Null THEN 1
  ELSE IF Z[2] = Null THEN -1
  ELSE bigSign(A[2] - Z[2])

\* a comparator that takes an ellipsis token for a classname like any other
compareEllipsisAsName(A, Z) ==
  IF A[2] = Z[2] THEN 0
  ELSE IF A[2] = Null THEN -1
  ELSE IF Z[2] = Null THEN 1
  ELSE bigSign(A[2] - Z[2])

\* the comparator of getSortedClassNames on two entries [name, order]
compare(A, Z) ==
  IF IsEllipsis(A[1]) THEN 1
  ELSE IF IsEllipsis(Z[1]) THEN -1
  ELSE IF A[2] = Z[2] THEN 0
  ELSE IF A[2] = Null THEN -1
  ELSE IF Z[2] = Null THEN 1
  ELSE bigSign(A[2] - Z[2])

\* Array.prototype.sort as the runtime of the rules (Node) performs it on
\* an array shorter than 64 elements: the run at the start of the array is
\* found (and reversed when it is strictly descending), then every later
\* element is inserted by binary search; the comparator is called with the
\* later element first
RECURSIVE CountRun(_, _, _)
CountRun(work, idx, isDescending) ==
  IF idx > Len(work) THEN idx - 1
  ELSE LET order == compare(work[idx], work[idx - 1])
       IN  IF (isDescending /\ order >= 0) \/ (~isDescending /\ order < 0) THEN idx - 1
           ELSE CountRun(work, idx + 1, isDescending)

RECURSIVE ReverseSeq(_)
ReverseSeq(seq) == IF seq = <<>> THEN <<>> ELSE Append(ReverseSeq(Tail(seq)), seq[1])

RECURSIVE FindSlot(_, _, _, _)
FindSlot(work, pivot, left, right) ==
  IF left >= right THEN left
  ELSE LET mid == left + ((right - left) \div 2)
       IN  IF compare(pivot, work[mid]) < 0 THEN FindSlot(work, pivot, left, mid)
           ELSE FindSlot(work, pivot, mid + 1, right)

RECURSIVE BinaryInsertionSort(_, _)
BinaryInsertionSort(work, start) ==
  IF start > Len(work) THEN work
  ELSE LET pivot == work[start]
           slot == FindSlot(work, pivot, 1, start)
       IN  BinaryInsertionSort(SubSeq(work, 1, slot - 1) \o <<pivot>>
                                 \o SubSeq(work, slot, start - 1)
                                 \o SubSeq(work, start + 1, Len(work)),
                               start + 1)

SortEntries(res) ==
  IF Len(res) < 2 THEN res
  ELSE LET isDescending == compare(res[2], res[1]) < 0
           runLength == CountRun(res, 3, isDescending)
           work == IF isDescending
                   THEN ReverseSeq(SubSeq(res, 1, runLength)) \o SubSeq(res, runLength + 1, Len(res))
                   ELSE res
       IN  BinaryInsertionSort(work, runLength + 1)

NamesOfEntries(res) == [k \in 1..Len(res) |-> res[k][1]]

getSortedClassNames(className) == NamesOfEntries(SortEntries(getClassOrder(className)))

(***************************************************************************)
(* classnames-order                                                        *)
(***************************************************************************)
\* arr.splice(start, 1): a negative start counts from the end, a start
\* behind the end removes nothing
Splice(arr, start) ==
  LET at == IF start < 0 THEN Max(Len(arr) + start, 0) ELSE Min(start, Len(arr))
  IN  IF at >= Len(arr) THEN arr
      ELSE SubSeq(arr, 1, at) \o SubSeq(arr, at + 2, Len(arr))

\* the for loop of removeDuplicatesFromClassnamesAndWhitespaces, i counted
\* from 0; after a splice the i-- and the i++ leave i where it is
RECURSIVE RemoveLoop(_, _, _, _, _)
RemoveLoop(orderedClassNames, whitespaces, previous, i, offset) ==
  IF i >= Len(orderedClassNames)
  THEN [classNames |-> orderedClassNames, whitespaces |-> whitespaces]
  ELSE IF orderedClassNames[i + 1] = previous
  THEN RemoveLoop(Splice(orderedClassNames, i), Splice(whitespaces, i + offset),
                  orderedClassNames[i + 1], i, offset)
  ELSE RemoveLoop(orderedClassNames, whitespaces, orderedClassNames[i + 1], i + 1, offset)

removeDuplicatesFromClassnamesAndWhitespaces(ordered, whitespaces, headSpace, tailSpace) ==
  RemoveLoop(ordered, whitespaces, ordered[1], 1,
             IF (~headSpace /\ ~tailSpace) \/ tailSpace THEN -1 ELSE 0)

\* the loop that generates validatedClassNamesValue, from classname i on
\* (counted from 0)
RECURSIVE Rebuild(_, _, _, _, _)
Rebuild(orderedClassNames, whitespaces, headSpace, tailSpace, i) ==
  IF i >= Len(orderedClassNames) THEN <<>>
  ELSE LET w == IF i < Len(whitespaces) THEN whitespaces[i + 1] ELSE <<>>
           cls == orderedClassNames[i + 1]
       IN  (IF headSpace THEN w \o cls ELSE cls \o w)
           \o (IF headSpace /\ tailSpace /\ i = Len(orderedClassNames) - 1
                  /\ whitespaces # <<>>
               THEN whitespaces[Len(whitespaces)] ELSE <<>>)
           \o Rebuild(orderedClassNames, whitespaces, headSpace, tailSpace, i + 1)

\* the comparison of the original with the validated value
OrderReport(originalClassNamesValue, validatedClassNamesValue) ==
  [reported |-> originalClassNamesValue # validatedClassNamesValue,
   validated |-> validatedClassNamesValue]

OrderRebuilt(originalClassNamesValue, ex, kept) ==
  OrderReport(originalClassNamesValue,
              Rebuild(kept.classNames, kept.whitespaces, ex.headSpace, ex.tailSpace, 0))

OrderSorted(originalClassNamesValue, ex, removeDuplicates, orderedClassNames) ==
  OrderRebuilt(originalClassNamesValue, ex,
               IF removeDuplicates
               THEN removeDuplicatesFromClassnamesAndWhitespaces(
                      orderedClassNames, ex.whitespaces, ex.headSpace, ex.tailSpace)
               ELSE [classNames |-> orderedClassNames, whitespaces |-> ex.whitespaces])

OrderExtracted(originalClassNamesValue, ex, removeDuplicates) ==
  IF Len(ex.classNames) <= 1 THEN [reported |-> FALSE, validated |-> <<>>]
  ELSE OrderSorted(originalClassNamesValue, ex, removeDuplicates,
                   getSortedClassNames(ex.classNames))

\* the callback of parseNode on the value of a class attribute: whether
\* invalidOrder is reported and the text its fix writes
parseNodeOrder(originalClassNamesValue, removeDuplicates) ==
  OrderExtracted(originalClassNamesValue,
                 extractClassnamesFromValue(originalClassNamesValue), removeDuplicates)

(***************************************************************************)
(* Specification SpecOrder: classnames-order lints a class attribute and   *)
(* its fix is applied, after which the rule runs again                     *)
(***************************************************************************)
MaxOrderClasses == 4

MaxFixes == 2

\* two classnames without an order and three with one
OrderNames ==
  {<<"f", "o", "o">>, <<"b", "a", "r">>, <<"m", "-", "2">>,
   <<"w", "-", "2">>, <<"s", "m", ":", "w", "-", "2">>}

\* the whitespace between classname k and the next one: single spaces, or
\* single and double spaces in turn
Gap(style, k) == IF style = "mixed" /\ k % 2 = 0 THEN <<" ", " ">> ELSE <<" ">>

RECURSIVE JoinGaps(_, _, _)
JoinGaps(names, style, k) ==
  IF names = <<>> THEN <<>>
  ELSE IF Len(names) = 1 THEN names[1]
  ELSE names[1] \o Gap(style, k) \o JoinGaps(Tail(names), style, k + 1)

InitOrder ==
  /\ IdleWorker
  /\ IdleArbitrary
  /\ IdleExtract
  /\ IdleSize
  /\ IdlePatch
  /\ IdleGroups
  /\ IdleTagged
  /\ IdleOptions
  /\ IdleNegative
  /\ IdleSort
  /\ IdleCache
  /\ IdlePrefix
  /\ IdleParse
  /\ IdleShorthand
  /\ IdleConflict
  /\ \E n \in 0..MaxOrderClasses : \E names \in [1..n -> OrderNames] :
       \E head \in {<<>>, <<" ", " ", " ">>} : \E tail \in {<<>>, <<" ", " ">>} :
         \E style \in {"single", "mixed"} :
           ordText = head \o JoinGaps(names, style, 1) \o tail
  /\ ordRemove \in BOOLEAN
  /\ ordReported = FALSE
  /\ ordValidated = <<>>
  /\ ordFixes = 0
  /\ ordPc = "ready"

\* the rule runs on the attribute
LintOrder ==
  /\ ordPc = "ready"
  /\ LET out == parseNodeOrder(ordText, ordRemove)
     IN  /\ ordReported' = out.reported
         /\ ordValidated' = out.validated
  /\ ordPc' = "linted"
  /\ UNCHANGED <<ordText, ordRemove, ordFixes, gpVars, prVars, shVars, cfVars, cpVars, soVars, ngVars, opVars, tgVars, grVars, pxVars, szVars, exVars, avVars, wkVars>>

\* the fix of the report replaces the attribute's text; the rule runs again
ApplyOrderFix ==
  /\ ordPc = "linted"
  /\ ordReported
  /\ ordFixes < MaxFixes
  /\ ordText' = ordValidated
  /\ ordReported' = FALSE
  /\ ordValidated' = <<>>
  /\ ordFixes' = ordFixes + 1
  /\ ordPc' = "ready"
  /\ UNCHANGED <<ordRemove, gpVars, prVars, shVars, cfVars, cpVars, soVars, ngVars, opVars, tgVars, grVars, pxVars, szVars, exVars, avVars, wkVars>>

NextOrder == LintOrder \/ ApplyOrderFix

SpecOrder == InitOrder /\ [][NextOrder]_vars

(***************************************************************************)
(* Properties of classnames-order                                          *)
(***************************************************************************)
\* no element of the list occurs twice
NoRepeats(list) ==
  \A i \in 1..Len(list) : \A j \in 1..Len(list) : i # j => list[i] # list[j]

\* how often c occurs in the list
Occurrences(list, c) == Cardinality({k \in 1..Len(list) : list[k] = c})

\* C5: with removeDuplicates enabled no classname occurs twice in the text
\* the fix writes; with removeDuplicates disabled the text of the fix holds
\* every classname as often as the original does.
C5_NoRepeatAfterFix ==
  (ordPc = "linted" /\ ordReported) =>
    IF ordRemove THEN NoRepeats(ClassNamesOf(ordValidated))
    ELSE \A c \in OrderNames :
           Occurrences(ClassNamesOf(ordValidated), c) = Occurrences(ClassNamesOf(ordText), c)

\* what does hold of C5: a classname with an order is never left twice, and
\* with removeDuplicates disabled every classname is kept
C5_OrderedRepeatsRemoved ==
  (ordPc = "linted" /\ ordReported) =>
    IF ordRemove
    THEN \A c \in OrderNames :
           ClassOrder(c) # Null => Occurrences(ClassNamesOf(ordValidated), c) <= 1
    ELSE \A c \in OrderNames :
           Occurrences(ClassNamesOf(ordValidated), c) = Occurrences(ClassNamesOf(ordText), c)

\* the classnames of the text are in canonical order and duplicate-free:
\* those without an order first, the others by ascending order
Canonical(text) ==
  /\ NoRepeats(ClassNamesOf(text))
  /\ \A i \in 1..Len(ClassNamesOf(text)) : \A j \in 1..Len(ClassNamesOf(text)) :
       i < j =>
         \/ ClassOrder(ClassNamesOf(text)[i]) = Null
         \/ /\ ClassOrder(ClassNamesOf(text)[j]) # Null
            /\ ClassOrder(ClassNamesOf(text)[i]) < ClassOrder(ClassNamesOf(text)[j])

\* C6: on a text in canonical order without duplicates nothing is reported
\* and the rebuilt text is the original; on the text a fix has written
\* nothing is reported.
C6_OrderIdempotent ==
  ordPc = "linted" =>
    /\ Canonical(ordText) =>
         /\ ~ordReported
         /\ Len(ClassNamesOf(ordText)) > 1 => ordValidated = ordText
    /\ ordFixes > 0 => ~ordReported

\* a fix has been applied to a text of several classnames and the rule has
\* run on the text it wrote
C6_Witness ==
  /\ ordPc = "linted"
  /\ ordFixes = 1
  /\ ~ordReported
  /\ Len(ClassNamesOf(ordText)) > 1
  /\ ordValidated = ordText

\* whether the whitespace token k of the original joins a classname of the
\* sorted list to a predecessor equal to it: with leading whitespace token k
\* stands in front of classname k, without it in front of classname k + 1
JoinsRepeat(sorted, headSpace, k) ==
  LET p == IF headSpace THEN k ELSE k + 1
  IN  p >= 2 /\ p <= Len(sorted) /\ sorted[p] = sorted[p - 1]

\* the whitespace tokens from k on without those that join a repeat
RECURSIVE JoinersKept(_, _, _, _)
JoinersKept(sorted, whitespaces, headSpace, k) ==
  IF k > Len(whitespaces) THEN <<>>
  ELSE (IF JoinsRepeat(sorted, headSpace, k) THEN <<>> ELSE <<whitespaces[k]>>)
         \o JoinersKept(sorted, whitespaces, headSpace, k + 1)

\* C16: with removeDuplicates the text rebuilt by classnames-order holds the
\* whitespace tokens of the original without, for each dropped classname,
\* the token that joined it to its predecessor, whether or not the original
\* has leading or trailing whitespace: the leading and the trailing
\* whitespace stay, and there is one token less for each dropped classname.
C16_JoinerOfDroppedRemoved ==
  (ordPc = "linted" /\ ordRemove /\ Len(ClassNamesOf(ordText)) > 1) =>
    extractClassnamesFromValue(ordValidated).whitespaces
      = JoinersKept(getSortedClassNames(ClassNamesOf(ordText)),
                    extractClassnamesFromValue(ordText).whitespaces,
                    extractClassnamesFromValue(ordText).headSpace, 1)

(***************************************************************************)
(* enforces-negative-arbitrary-values                                      *)
(***************************************************************************)
UpperCase ==
  <<"A", "B", "C", "D", "E", "F", "G", "H", "I", "J", "K", "L", "M", "N", "O", "P", "Q", "R",
    "S", "T", "U", "V", "W", "X", "Y", "Z">>

LowerCase ==
  <<"a", "b", "c", "d", "e", "f", "g", "h", "i", "j", "k", "l", "m", "n", "o", "p", "q", "r",
    "s", "t", "u", "v", "w", "x", "y", "z">>

\* the flag i of the regular expression: letters are compared in lower case
ToLower(str) ==
  [k \in 1..Len(str) |->
     IF \E u \in 1..Len(UpperCase) : UpperCase[u] = str[k]
     THEN LowerCase[CHOOSE u \in 1..Len(UpperCase) : UpperCase[u] = str[k]]
     ELSE str[k]]

\* the words of the alternation of negArbitraryValRegEx:
\* (inset|scale)(-[xy])?, top, right, bottom, left, z, order,
\* (scroll-)?m[blrtxy]?, (skew|space|translate)-[xy], rotate, tracking,
\* indent, (backdrop-)?hue-rotate
NegativeStems ==
  {<<"i", "n", "s", "e", "t">>, <<"i", "n", "s", "e", "t", "-", "x">>,
   <<"i", "n", "s", "e", "t", "-", "y">>, <<"s", "c", "a", "l", "e">>,
   <<"s", "c", "a", "l", "e", "-", "x">>, <<"s", "c", "a", "l", "e", "-", "y">>,
   <<"t", "o", "p">>, <<"r", "i", "g", "h", "t">>, <<"b", "o", "t", "t", "o", "m">>,
   <<"l", "e", "f", "t">>, <<"z">>, <<"o", "r", "d", "e", "r">>, <<"m">>, <<"m", "b">>,
   <<"m", "l">>, <<"m", "r">>, <<"m", "t">>, <<"m", "x">>, <<"m", "y">>,
   <<"s", "c", "r", "o", "l", "l", "-", "m">>,
   <<"s", "c", "r", "o", "l", "l", "-", "m", "b">>,
   <<"s", "c", "r", "o", "l", "l", "-", "m", "l">>,
   <<"s", "c", "r", "o", "l", "l", "-", "m", "r">>,
   <<"s", "c", "r", "o", "l", "l", "-", "m", "t">>,
   <<"s", "c", "r", "o", "l", "l", "-", "m", "x">>,
   <<"s", "c", "r", "o", "l", "l", "-", "m", "y">>, <<"s", "k", "e", "w", "-", "x">>,
   <<"s", "k", "e", "w", "-", "y">>, <<"s", "p", "a", "c", "e", "-", "x">>,
   <<"s", "p", "a", "c", "e", "-", "y">>,
   <<"t", "r", "a", "n", "s", "l", "a", "t", "e", "-", "x">>,
   <<"t", "r", "a", "n", "s", "l", "a", "t", "e", "-", "y">>,
   <<"r", "o", "t", "a", "t", "e">>, <<"t", "r", "a", "c", "k", "i", "n", "g">>,
   <<"i", "n", "d", "e", "n", "t">>, <<"h", "u", "e", "-", "r", "o", "t", "a", "t", "e">>,
   <<"b", "a", "c", "k", "d", "r", "o", "p", "-", "h", "u", "e", "-", "r", "o", "t", "a", "t", "e">>}

\* negArbitraryValRegEx.test(suffix): ^- a stem -\[ .* ] $
negArbitraryValRegExTest(suffix) ==
  /\ suffix # <<>>
  /\ suffix[1] = "-"
  /\ suffix[Len(suffix)] = "]"
  /\ \A k \in 1..Len(suffix) : suffix[k] # "\n"
  /\ \E stem \in NegativeStems :
       /\ Len(suffix) >= Len(stem) + 4
       /\ ToLower(SubSeq(suffix, 2, Len(stem) + 3)) = stem \o <<"-", "[">>

\* the callback of walkClassStringNodes: the classnames of the value that
\* the rule reports
DetectedNegatives(originalClassNamesValue) ==
  LET detected(cls) == negArbitraryValRegExTest(getSuffix(cls))
  IN  SelectSeq(extractClassnamesFromValue(originalClassNamesValue).classNames, detected)

(***************************************************************************)
(* Specification SpecNegative: the rule runs on an attribute that holds    *)
(* one classname composed of variants, minus sign, stem and value          *)
(***************************************************************************)
NegativeVariants ==
  {<<>>, <<"s", "m", ":">>, <<"g", "r", "o", "u", "p", "/", "e", "d", "i", "t", ":">>}

\* stems of properties that take a negative value, and three that do not
NegatableStems ==
  {<<"t", "o", "p">>, <<"i", "n", "s", "e", "t", "-", "y">>, <<"m", "t">>,
   <<"s", "c", "r", "o", "l", "l", "-", "m", "x">>,
   <<"t", "r", "a", "n", "s", "l", "a", "t", "e", "-", "x">>,
   <<"h", "u", "e", "-", "r", "o", "t", "a", "t", "e">>, <<"z">>}

OtherStems == {<<"w">>, <<"p">>, <<"t", "e", "x", "t">>}

\* a theme key, a bracketed value, a bracketed value with the minus inside,
\* and a bracketed value with a colon between parentheses
NegativeValues ==
  {<<"1">>, <<"[", "1", "p", "x", "]">>, <<"[", "-", "1", "p", "x", "]">>,
   <<"[", "f", "(", "a", ":", "b", ")", "]">>}

ComposeNegative(parts) ==
  parts.variants \o parts.minus \o parts.stem \o <<"-">> \o parts.value

InitNegative ==
  /\ IdleWorker
  /\ IdleArbitrary
  /\ IdleExtract
  /\ IdleSize
  /\ IdlePatch
  /\ IdleGroups
  /\ IdleTagged
  /\ IdleOptions
  /\ IdleSort
  /\ IdleCache
  /\ IdleOrder
  /\ IdlePrefix
  /\ IdleParse
  /\ IdleShorthand
  /\ IdleConflict
  /\ ngParts \in [variants : NegativeVariants, minus : {<<>>, <<"-">>},
                  stem : NegatableStems \cup OtherStems, value : NegativeValues]
  /\ ngText = ComposeNegative(ngParts)
  /\ ngDetected = <<>>
  /\ ngDone = FALSE

\* the rule runs on the attribute
LintNegative ==
  /\ ngParts # <<>>
  /\ ~ngDone
  /\ ngDetected' = DetectedNegatives(ngText)
  /\ ngDone' = TRUE
  /\ UNCHANGED <<ngParts, ngText, gpVars, prVars, shVars, cfVars, ordVars, cpVars, soVars, opVars, tgVars, grVars, pxVars, szVars, exVars, avVars, wkVars>>

NextNegative == LintNegative

SpecNegative == InitNegative /\ [][NextNegative]_vars

IsBracketed(value) == value # <<>> /\ value[1] = "[" /\ value[Len(value)] = "]"

\* C18: the classname is reported if and only if, after its variant prefix,
\* it starts with '-' followed by a negatable stem and a bracketed arbitrary
\* value; a classname with the minus inside the brackets only is not
\* reported, and the variant prefix does not change the decision.
C18_ReportedIffNegativeArbitrary ==
  ngDone =>
    ((ngDetected = <<ngText>>)
       <=> (/\ ngParts.minus = <<"-">>
            /\ ngParts.stem \in NegatableStems
            /\ IsBracketed(ngParts.value)))

(***************************************************************************)
(* Specification SpecExtract: extractClassnamesFromValue on every string   *)
(***************************************************************************)
MaxTextLen == 6

TextAlphabet == {"a", "b", " "}

InitExtract ==
  /\ IdleWorker
  /\ IdleArbitrary
  /\ IdleSize
  /\ IdlePatch
  /\ IdleGroups
  /\ IdleTagged
  /\ IdleOptions
  /\ IdleNegative
  /\ IdleSort
  /\ IdleCache
  /\ IdleOrder
  /\ IdlePrefix
  /\ IdleParse
  /\ IdleShorthand
  /\ IdleConflict
  /\ exText \in SeqsUpTo(TextAlphabet, MaxTextLen)
  /\ exResult = <<>>
  /\ exDone = FALSE

\* extractClassnamesFromValue(classStr) on a string
CallExtract ==
  /\ ~exDone
  /\ exResult' = extractClassnamesFromValue(exText)
  /\ exDone' = TRUE
  /\ UNCHANGED <<exText, gpVars, prVars, shVars, cfVars, ordVars, cpVars, soVars, ngVars,
                 opVars, tgVars, grVars, pxVars, szVars, avVars, wkVars>>

NextExtract == CallExtract

SpecExtract == InitExtract /\ [][NextExtract]_vars

\* the tokens of first and second in turn, first[1] ahead
RECURSIVE Interleave(_, _)
Interleave(first, second) ==
  IF first = <<>> THEN Flatten(second)
  ELSE first[1] \o Interleave(second, Tail(first))

\* the classnames and whitespaces interleave back to the text, beginning
\* with a whitespace token iff headSpace and ending with one iff tailSpace;
\* no classname is empty or holds a separator
InterleavesBack ==
  LET r == exResult
      last == IF exText = <<>> THEN "" ELSE exText[Len(exText)]
  IN  /\ exText = (IF r.headSpace THEN Interleave(r.whitespaces, r.classNames)
                   ELSE Interleave(r.classNames, r.whitespaces))
      /\ r.headSpace <=> (exText # <<>> /\ exText[1] = " ")
      /\ r.tailSpace <=> (last = " ")
      /\ \A k \in 1..Len(r.classNames) :
           r.classNames[k] # <<>> /\ \A c \in 1..Len(r.classNames[k]) : r.classNames[k][c] # " "
      /\ \A k \in 1..Len(r.whitespaces) :
           r.whitespaces[k] # <<>> /\ \A c \in 1..Len(r.whitespaces[k]) : r.whitespaces[k][c] = " "

\* the number of joins between the classnames plus one for headSpace and
\* one for tailSpace
JoinsAndEnds ==
  Max(Len(exResult.classNames) - 1, 0) + (IF exResult.headSpace THEN 1 ELSE 0)
    + (IF exResult.tailSpace THEN 1 ELSE 0)

\* C28 as stated: the classnames and whitespaces interleave back to the
\* input, no classname is empty or holds a separator, and the number of
\* whitespace tokens is the number of joins plus one for headSpace and one
\* for tailSpace, for every string.
C28_WhitespaceCountForEveryString ==
  exDone => (InterleavesBack /\ Len(exResult.whitespaces) = JoinsAndEnds)

\* C28, amended: the same, the count holding for every string with a
\* classname; a string that consists only of whitespace yields no classname
\* and one whitespace token that is both the head and the tail space.
C28_WhitespaceCountWithClassname ==
  exDone =>
    /\ InterleavesBack
    /\ exResult.classNames # <<>> => Len(exResult.whitespaces) = JoinsAndEnds
    /\ exResult.classNames = <<>> =>
         /\ exResult.headSpace = exResult.tailSpace
         /\ exResult.whitespaces = (IF exText = <<>> THEN <<>> ELSE <<exText>>)

\* ' a  b ' has been split into two classnames and three whitespace tokens
C28_Witness ==
  /\ exDone
  /\ exText = <<" ", "a", " ", " ", "b", " ">>
  /\ exResult.classNames = << <<"a">>, <<"b">> >>
  /\ exResult.whitespaces = << <<" ">>, <<" ", " ">>, <<" ">> >>
  /\ exResult.headSpace /\ exResult.tailSpace

(***************************************************************************)
(* Specification SpecSize: the equivalences of enforces-shorthand on w-V   *)
(* and h-V, for themes that have or lack the size, width and height scales *)
(***************************************************************************)
MaxSizeClasses == 2

\* a scale of the theme: absent, or present with the value of each key
NoScale == [present |-> FALSE, entries |-> {}]

ScaleOf(entries) == [present |-> TRUE, entries |-> entries]

\* theme[prop][key], "" standing for undefined
ScaleValue(scale, key) ==
  IF \E e \in scale.entries : e.key = key
  THEN (CHOOSE e \in scale.entries : e.key = key).val
  ELSE ""

\* the scales of width, height and size: absent, empty, with the key 2, and
\* with the keys 2 and screen
SizeScales(prop) ==
  {NoScale, ScaleOf({}), ScaleOf({[key |-> <<"2">>, val |-> "0.5rem"]}),
   ScaleOf({[key |-> <<"2">>, val |-> "0.5rem"],
            [key |-> <<"s", "c", "r", "e", "e", "n">>, val |-> IF prop = "height" THEN "100vh" ELSE "100vw"]})}

SizeVariants == {<<>>, <<"m", "d", ":">>}

SizeNames ==
  {[v |-> v, imp |-> imp, stem |-> stem, val |-> val] :
     v \in SizeVariants, imp \in {<<>>, <<"!">>}, stem \in {<<"w">>, <<"h">>},
     val \in {<<"2">>, <<"s", "c", "r", "e", "e", "n">>}}

\* what parseClassname returns for the classname: the leaf Width or Height
\* matches when the value is a key of its scale, or when the scale has no
\* key and the generic values stand in for it
SizeParsed(n, index, theme) ==
  LET scale == IF n.stem = <<"w">> THEN theme.width ELSE theme.height
      matched == scale.entries = {} \/ \E e \in scale.entries : e.key = n.val
      core == n.v \o n.imp \o n.stem \o <<"-">> \o n.val
  IN  [index |-> index,
       name |-> core,
       variants |-> n.v,
       parentType |-> IF matched THEN "Sizing" ELSE "",
       body |-> IF matched THEN n.imp \o n.stem \o <<"-">> ELSE Drop(core, Len(n.v)),
       value |-> IF matched THEN n.val ELSE <<>>,
       shorthand |-> "",
       leading |-> <<>>,
       trailing |-> <<>>,
       important |-> n.imp # <<>>]

\* the filter that yields parsedElementsInInputSet, on a theme: "in", "out",
\* or "threw" when theme.size![value] reads a property of undefined
InInputSetOn(c, e, theme) ==
  IF e.mode = "exact"
  THEN (IF \E k \in 1..Len(e.needles) : Contains(c.name, e.needles[k]) THEN "in" ELSE "out")
  ELSE LET bodyMatch == \E k \in 1..Len(e.needles) : ConfigPrefix \o e.needles[k] = c.body
           wValue == ScaleValue(theme.width, c.value)
           hValue == ScaleValue(theme.height, c.value)
           sizeValue == ScaleValue(theme.size, c.value)
           isSize == Contains(c.body, <<"h", "-">>) \/ Contains(c.body, <<"w", "-">>)
           isValidSize == \E s \in theme.size.entries : s.key = c.value
           fullMatch == wValue = hValue /\ wValue = sizeValue
       IN  IF ~theme.size.present THEN "threw"
           ELSE IF sizeValue = "" \/ ~theme.width.present \/ wValue = ""
                   \/ ~theme.height.present \/ hValue = ""
           THEN "out"
           ELSE IF bodyMatch /\ ~(isSize /\ ~isValidSize /\ ~fullMatch) THEN "in" ELSE "out"

\* the loop over complexEquivalences on a theme, from row i on
RECURSIVE ComplexPhaseOn(_, _, _)
ComplexPhaseOn(st, i, theme) ==
  IF i > Len(complexEquivalences) \/ st.threw THEN st
  ELSE LET e == complexEquivalences[i]
           inSet(c) == InInputSetOn(c, e, theme) = "in"
       IN  IF Len(st.remaining) < Len(e.needles) THEN ComplexPhaseOn(st, i + 1, theme)
           ELSE IF \E k \in 1..Len(st.remaining) : InInputSetOn(st.remaining[k], e, theme) = "threw"
           THEN [st EXCEPT !.threw = TRUE]
           ELSE LET next == ApplyValidKeys(VariantGroups(SelectSeq(st.remaining, inSet), e, 1, <<>>),
                                           e, 1, st)
                IN  ComplexPhaseOn([remaining |-> next.remaining, validated |-> next.validated,
                                    troubles |-> next.troubles, threw |-> FALSE],
                                   i + 1, theme)

InitSize ==
  /\ IdleWorker
  /\ IdleArbitrary
  /\ IdleExtract
  /\ IdlePatch
  /\ IdleGroups
  /\ IdleTagged
  /\ IdleOptions
  /\ IdleNegative
  /\ IdleSort
  /\ IdleCache
  /\ IdleOrder
  /\ IdlePrefix
  /\ IdleParse
  /\ IdleShorthand
  /\ IdleConflict
  /\ \E size \in SizeScales("size") : \E width \in SizeScales("width") :
       \E height \in SizeScales("height") :
         szTheme = [size |-> size, width |-> width, height |-> height]
  /\ szNames \in [1..MaxSizeClasses -> SizeNames]
  /\ szOut = <<>>
  /\ szDone = FALSE

\* parseForShorthandCandidates up to the end of the loop over the
\* equivalences: the classnames parsed, then filtered and grouped row by row
LintSize ==
  /\ ~szDone
  /\ szTheme # <<>>
  /\ LET parsed == [k \in 1..Len(szNames) |-> SizeParsed(szNames[k], k - 1, szTheme)]
         st == ComplexPhaseOn([remaining |-> parsed, validated |-> <<>>, troubles |-> <<>>,
                               threw |-> FALSE], 1, szTheme)
     IN  szOut' = [threw |-> st.threw, troubles |-> IF st.threw THEN <<>> ELSE st.troubles]
  /\ szDone' = TRUE
  /\ UNCHANGED <<szTheme, szNames, gpVars, prVars, shVars, cfVars, ordVars, cpVars, soVars,
                 ngVars, opVars, tgVars, grVars, pxVars, exVars, avVars, wkVars>>

NextSize == LintSize

SpecSize == InitSize /\ [][NextSize]_vars

\* V is a key of the scale
KeyOf(scale, val) == scale.present /\ \E e \in scale.entries : e.key = val

\* a trouble proposes size-V for some V
ProposesSize(trouble, val) ==
  \E v \in SizeVariants : \E imp \in {<<>>, <<"!">>} :
    trouble.shorthand = v \o imp \o <<"s", "i", "z", "e", "-">> \o val

\* C24: w-V and h-V collapse to size-V only if V is a key of the size,
\* width and height scales of the theme; when the theme lacks one of the
\* three scales the classnames are left unchanged and nothing is thrown.
C24_SizeOnlyForKeyOfAllScales ==
  szDone =>
    /\ ~szOut.threw
    /\ \A k \in 1..Len(szOut.troubles) : \A val \in {<<"2">>, <<"s", "c", "r", "e", "e", "n">>} :
         ProposesSize(szOut.troubles[k], val) =>
           /\ KeyOf(szTheme.size, val)
           /\ KeyOf(szTheme.width, val)
           /\ KeyOf(szTheme.height, val)
    /\ (~szTheme.size.present \/ ~szTheme.width.present \/ ~szTheme.height.present) =>
         szOut.troubles = <<>>

(***************************************************************************)
(* Specification SpecGroups: getGroups and getGroupConfigKeys on a tree    *)
(***************************************************************************)
MaxDepth == 4

MaxMembers == 2

\* a leaf named by its path in the tree: members is the template of the
\* path, configKey the key of the path
PathLeaf(path) == [type |-> path, leaf |-> TRUE, members |-> path, configKey |-> path]

\* the trees of at most depth levels rooted at a path, and the lists of n
\* such trees
RECURSIVE TreesAt(_, _), MembersAt(_, _, _)
TreesAt(depth, path) ==
  {PathLeaf(path)}
    \cup (IF depth <= 1 THEN {}
          ELSE UNION {{Node(path, ms) : ms \in MembersAt(depth - 1, path, n)} :
                        n \in 1..MaxMembers})

MembersAt(depth, path, n) ==
  IF n = 0 THEN {<<>>}
  ELSE {Append(ms, t) : ms \in MembersAt(depth, path, n - 1),
                        t \in TreesAt(depth, Append(path, n))}

\* configKey ?? null
ConfigKeyOrNull(node) == IF "configKey" \in DOMAIN node THEN node.configKey ELSE Null

\* getGroupConfigKeys: the key of a leaf of the first or second level, and
\* the key of every member of a group of the second level
getGroupConfigKeys(groupsConfig) ==
  LET third(prop) == [k \in 1..Len(prop.members) |-> ConfigKeyOrNull(prop.members[k])]
      second(group) ==
        Flatten([k \in 1..Len(group.members) |->
                   IF group.members[k].leaf THEN <<ConfigKeyOrNull(group.members[k])>>
                   ELSE third(group.members[k])])
  IN  Flatten([k \in 1..Len(groupsConfig) |->
                 IF groupsConfig[k].leaf THEN <<ConfigKeyOrNull(groupsConfig[k])>>
                 ELSE second(groupsConfig[k])])

InitGroups ==
  /\ IdleWorker
  /\ IdleArbitrary
  /\ IdleExtract
  /\ IdleSize
  /\ IdlePatch
  /\ IdleTagged
  /\ IdleOptions
  /\ IdleSort
  /\ IdleCache
  /\ IdleOrder
  /\ IdlePrefix
  /\ IdleParse
  /\ IdleShorthand
  /\ IdleConflict
  /\ IdleNegative
  /\ \E n \in 1..MaxMembers : grConfig \in MembersAt(MaxDepth, <<>>, n)
  /\ grGroups = <<>>
  /\ grKeys = <<>>
  /\ grPc = "ready"

\* getGroups(groupsConfig): the templates of the leaves collected
CallGetGroups ==
  /\ grPc \in {"ready", "keys"}
  /\ grGroups' = LET leaves == getGroups(grConfig)
                 IN  [k \in 1..Len(leaves) |-> leaves[k].members]
  /\ grPc' = IF grPc = "ready" THEN "groups" ELSE "both"
  /\ UNCHANGED <<grConfig, grKeys, gpVars, prVars, shVars, cfVars, ordVars, cpVars, soVars,
                 ngVars, opVars, tgVars, pxVars, szVars, exVars, avVars, wkVars>>

\* getGroupConfigKeys(groupsConfig)
CallGetGroupConfigKeys ==
  /\ grPc \in {"ready", "groups"}
  /\ grKeys' = getGroupConfigKeys(grConfig)
  /\ grPc' = IF grPc = "ready" THEN "keys" ELSE "both"
  /\ UNCHANGED <<grConfig, grGroups, gpVars, prVars, shVars, cfVars, ordVars, cpVars, soVars,
                 ngVars, opVars, tgVars, pxVars, szVars, exVars, avVars, wkVars>>

NextGroups == CallGetGroups \/ CallGetGroupConfigKeys

SpecGroups == InitGroups /\ [][NextGroups]_vars

\* the number of levels of a list of groups
RECURSIVE LevelsOf(_)
LevelsOf(nodes) ==
  IF nodes = <<>> THEN 0
  ELSE Max(IF nodes[1].leaf THEN 1 ELSE 1 + LevelsOf(nodes[1].members),
           LevelsOf(Tail(nodes)))

\* C21: getGroups and getGroupConfigKeys return lists of the same length,
\* position i of both refers to leaf i of the tree in depth-first order,
\* and no leaf is left out, whatever the depth of the tree.
C21_SameLeafAtEveryPosition ==
  LET leaves == LeavesOf(grConfig)
  IN  /\ grPc \in {"groups", "both"} =>
           grGroups = [k \in 1..Len(leaves) |-> leaves[k].members]
      /\ grPc \in {"keys", "both"} =>
           grKeys = [k \in 1..Len(leaves) |-> leaves[k].configKey]
      /\ grPc = "both" => Len(grGroups) = Len(grKeys)

(***************************************************************************)
(* Specification SpecTagged: a tagged template is visited by a rule built  *)
(* on createClassnameVisitors and by no-contradicting-classname            *)
(***************************************************************************)
TagNames == {"tw", "css", "myTag"}

\* the shapes of a tag: myTag, myTag.subTag, myTag(SomeComponent), and the
\* tags whose object or callee is not an identifier: myTag.a.b, this.myTag,
\* myTag.a(SomeComponent), myTag(SomeComponent)(Other)
TagShapes ==
  LET id(n) == [type |-> "Identifier", name |-> n]
      member(obj) == [type |-> "MemberExpression", object |-> obj]
      call(callee) == [type |-> "CallExpression", callee |-> callee]
  IN  UNION {{id(n), member(id(n)), call(id(n)), member(member(id(n))), call(member(id(n))),
              call(call(id(n)))} : n \in TagNames}
      \cup {member([type |-> "ThisExpression"])}

TagsOptions == {<<>>, <<"tw">>, <<"myTag">>, <<"tw", "myTag">>}

InitTagged ==
  /\ IdleWorker
  /\ IdleArbitrary
  /\ IdleExtract
  /\ IdleSize
  /\ IdlePatch
  /\ IdleGroups
  /\ IdleOptions
  /\ IdleSort
  /\ IdleCache
  /\ IdleOrder
  /\ IdlePrefix
  /\ IdleParse
  /\ IdleShorthand
  /\ IdleConflict
  /\ IdleNegative
  /\ tgTag \in TagShapes
  /\ tgTags \in TagsOptions
  /\ tgShared = "pending"
  /\ tgRule = "pending"

\* createClassnameVisitors.TaggedTemplateExpression, up to the call of
\* parseNode: if (name && !tags.includes(name)) return;
SharedSkipsTag(tag, tags) ==
  LET name == extractTagName(tag)
  IN  name # <<>> /\ name[1] # "" /\ ~Includes(tags, name[1])

SharedTaggedTemplateExpression ==
  /\ tgShared = "pending"
  /\ tgShared' = IF SharedSkipsTag(tgTag, tgTags) THEN "skipped" ELSE "analysed"
  /\ UNCHANGED <<tgTag, tgTags, tgRule, gpVars, prVars, shVars, cfVars, ordVars, cpVars, soVars,
                 ngVars, opVars, grVars, pxVars, szVars, exVars, avVars, wkVars>>

\* the visitor TaggedTemplateExpression of no-contradicting-classname, up
\* to the call of parseNode
RuleTaggedTemplateExpression ==
  /\ tgRule = "pending"
  /\ tgRule' = IF SkipsTag(tgTag, tgTags) THEN "skipped" ELSE "analysed"
  /\ UNCHANGED <<tgTag, tgTags, tgShared, gpVars, prVars, shVars, cfVars, ordVars, cpVars,
                 soVars, ngVars, opVars, grVars, pxVars, szVars, exVars, avVars, wkVars>>

NextTagged == SharedTaggedTemplateExpression \/ RuleTaggedTemplateExpression

SpecTagged == InitTagged /\ [][NextTagged]_vars

\* the name of the tag is extracted and listed in the option tags
TagListed ==
  /\ \/ tgTag.type = "Identifier"
     \/ tgTag.type = "MemberExpression" /\ tgTag.object.type = "Identifier"
     \/ tgTag.type = "CallExpression" /\ tgTag.callee.type = "Identifier"
  /\ \E k \in 1..Len(tgTags) :
       tgTags[k] = (CASE tgTag.type = "Identifier" -> tgTag.name
                      [] tgTag.type = "MemberExpression" -> tgTag.object.name
                      [] tgTag.type = "CallExpression" -> tgTag.callee.name)

\* C20: a tagged template is analysed only when the name extracted from its
\* tag is listed in the option tags; it is skipped when the name is not
\* listed or cannot be extracted, and every rule decides the same.
C20_AnalysedOnlyWhenListed ==
  /\ tgShared \in {"analysed", "skipped"} => (tgShared = "analysed" <=> TagListed)
  /\ tgRule \in {"analysed", "skipped"} => (tgRule = "analysed" <=> TagListed)
  /\ tgShared # "pending" /\ tgRule # "pending" => tgShared = tgRule

(***************************************************************************)
(* getOption (util/settings.ts): the value of an option of a rule          *)
(*                                                                         *)
(* A value is a sequence of strings that starts with its type: a boolean,  *)
(* a string, an array of strings, an object, or undefined.                 *)
(***************************************************************************)
Undefined == <<"undefined">>

Bool(b) == <<"boolean", IF b THEN "true" ELSE "false">>

Str(text) == <<"string", text>>

Arr(items) == <<"array">> \o items

EmptyObject == <<"object">>

\* const defaultOptions
defaultOptions ==
  [callees |-> Arr(<<"classnames", "clsx", "ctl", "cva", "tv">>),
   ignoredKeys |-> Arr(<<"compoundVariants", "defaultVariants">>),
   classRegex |-> Str("^class(Name)?$"),
   config |-> EmptyObject,
   removeDuplicates |-> Bool(TRUE),
   skipClassAttribute |-> Bool(FALSE),
   tags |-> Arr(<<>>)]

\* the fallback of the second version of getOption: switch (name)
DefaultOf(name) ==
  CASE name = "callees" -> Arr(<<"classnames", "clsx", "ctl", "cva", "tv">>)
    [] name = "ignoredKeys" -> Arr(<<"compoundVariants", "defaultVariants">>)
    [] name = "classRegex" -> Str("^class(Name)?$")
    [] name = "config" -> EmptyObject
    [] name = "removeDuplicates" -> Bool(TRUE)
    [] name = "skipClassAttribute" -> Bool(FALSE)
    [] name = "tags" -> Arr(<<>>)

\* obj[name] of an object that may lack the property
Property(obj, name) == IF name \in DOMAIN obj THEN obj[name] ELSE Undefined

\* (context.options[0] ?? {})[name]
RuleLevel(context, name) ==
  IF context.hasOptions THEN Property(context.options, name) ELSE Undefined

\* context.settings.tailwindcss?.[name]
SettingsLevel(context, name) ==
  IF context.hasSettings THEN Property(context.settings, name) ELSE Undefined

\* a || b || c in place of a ?? b ?? c: a false boolean and an empty string
\* count as absent
getOptionOr(context, name) ==
  LET falsy(v) == v \in {Undefined, Bool(FALSE), Str("")}
  IN  IF ~falsy(RuleLevel(context, name)) THEN RuleLevel(context, name)
      ELSE IF ~falsy(SettingsLevel(context, name)) THEN SettingsLevel(context, name)
      ELSE defaultOptions[name]

\* getOption of settings.ts: options ?? settings ?? defaultOptions
getOption(context, name) ==
  IF RuleLevel(context, name) # Undefined THEN RuleLevel(context, name)
  ELSE IF SettingsLevel(context, name) # Undefined THEN SettingsLevel(context, name)
  ELSE defaultOptions[name]

\* the second version of getOption: tests against undefined, then a switch
getOptionSwitch(context, name) ==
  LET optionValue == RuleLevel(context, name)
      settingValue == SettingsLevel(context, name)
  IN  IF optionValue # Undefined THEN optionValue
      ELSE IF settingValue # Undefined THEN settingValue
      ELSE DefaultOf(name)

(***************************************************************************)
(* Specification SpecOptions: an option is asked for in a context          *)
(***************************************************************************)
OptionNames ==
  {"callees", "tags", "config", "classRegex", "removeDuplicates", "skipClassAttribute",
   "ignoredKeys"}

\* the values an option may be given: for each type a value that is false
\* or empty and one that is not
OptionValues(name) ==
  CASE name \in {"callees", "tags", "ignoredKeys"} -> {Arr(<<>>), Arr(<<"tw">>)}
    [] name = "config" -> {EmptyObject, Str("tailwind.config.js")}
    [] name = "classRegex" -> {Str(""), Str("^tw$")}
    [] OTHER -> {Bool(FALSE), Bool(TRUE)}

\* an object that holds the option or not
Layers(name) == {<<>>} \cup {[n \in {name} |-> v] : v \in OptionValues(name)}

InitOptions ==
  /\ IdleWorker
  /\ IdleArbitrary
  /\ IdleExtract
  /\ IdleSize
  /\ IdlePatch
  /\ IdleGroups
  /\ IdleTagged
  /\ IdleSort
  /\ IdleCache
  /\ IdleOrder
  /\ IdlePrefix
  /\ IdleParse
  /\ IdleShorthand
  /\ IdleConflict
  /\ IdleNegative
  /\ opName \in OptionNames
  /\ \E hasOptions \in BOOLEAN : \E hasSettings \in BOOLEAN :
       \E options \in Layers(opName) : \E settings \in Layers(opName) :
         opContext = [hasOptions |-> hasOptions, options |-> options,
                      hasSettings |-> hasSettings, settings |-> settings]
  /\ opResult = <<>>
  /\ opPc = "ready"

\* getOption(context, name)
GetOptionCall ==
  /\ opPc = "ready"
  /\ opResult' = getOption(opContext, opName)
  /\ opPc' = "returned"
  /\ UNCHANGED <<opName, opContext, gpVars, prVars, shVars, cfVars, ordVars, cpVars, soVars,
                 ngVars, tgVars, grVars, pxVars, szVars, exVars, avVars, wkVars>>

\* the second version of getOption
GetOptionSwitchCall ==
  /\ opPc = "ready"
  /\ opResult' = getOptionSwitch(opContext, opName)
  /\ opPc' = "returned by the switch"
  /\ UNCHANGED <<opName, opContext, gpVars, prVars, shVars, cfVars, ordVars, cpVars, soVars,
                 ngVars, tgVars, grVars, pxVars, szVars, exVars, avVars, wkVars>>

NextOptions == GetOptionCall \/ GetOptionSwitchCall

SpecOptions == InitOptions /\ [][NextOptions]_vars

\* the built-in defaults
BuiltIn(name) ==
  CASE name = "removeDuplicates" -> Bool(TRUE)
    [] name = "skipClassAttribute" -> Bool(FALSE)
    [] name = "classRegex" -> Str("^class(Name)?$")
    [] name = "callees" -> Arr(<<"classnames", "clsx", "ctl", "cva", "tv">>)
    [] name = "tags" -> Arr(<<>>)
    [] name = "config" -> EmptyObject
    [] name = "ignoredKeys" -> Arr(<<"compoundVariants", "defaultVariants">>)

\* the option is given in the options of the rule, in the shared settings
InOptions == opContext.hasOptions /\ opName \in DOMAIN opContext.options

InSettings == opContext.hasSettings /\ opName \in DOMAIN opContext.settings

MaxSortLen == 5

\* classnames without an order, classnames with an order, and the two
\* ellipsis tokens
SortNames ==
  {<<"f", "o", "o">>, <<"b", "a", "r">>, <<"m", "-", "2">>, <<"w", "-", "2">>,
   <<".", ".", ".">>, HorizontalEllipsis}

InitSort ==
  /\ IdleWorker
  /\ IdleArbitrary
  /\ IdleExtract
  /\ IdleSize
  /\ IdlePatch
  /\ IdleGroups
  /\ IdleTagged
  /\ IdleOptions
  /\ IdleNegative
  /\ IdleOrder
  /\ IdlePrefix
  /\ IdleParse
  /\ IdleShorthand
  /\ IdleConflict
  /\ IdleCache
  /\ \E n \in 0..MaxSortLen : soInput \in [1..n -> SortNames]
  /\ soOutput = <<>>
  /\ soDone = FALSE

SortCall ==
  /\ ~soDone
  /\ soOutput' = getSortedClassNames(soInput)
  /\ soDone' = TRUE
  /\ UNCHANGED <<soInput, gpVars, prVars, shVars, cfVars, ordVars, cpVars, ngVars, opVars, tgVars, grVars, pxVars, szVars, exVars, avVars, wkVars>>

NextSort == SortCall

SpecSort == InitSort /\ [][NextSort]_vars

\* the classnames of the list with the given order, in the order of the list
WithOrder(className, order) ==
  LET has(name) == ~IsEllipsis(name) /\ ClassOrder(name) = order
  IN  SelectSeq(className, has)

\* the classnames with an order from low on, by ascending order
RECURSIVE KeyedFrom(_, _)
KeyedFrom(className, low) ==
  IF low > MaxClassOrder THEN <<>>
  ELSE WithOrder(className, low) \o KeyedFrom(className, low + 1)

\* C15: getSortedClassNames returns a permutation of its input: the
\* classnames without an order first, then the classnames with an order by
\* non-decreasing order, then the ellipsis tokens ('...' and the
\* one-character ellipsis); classnames that compare equal (several without
\* an order, several ellipsis tokens) keep the order of the input.
C15_SortedPermutation ==
  soDone =>
    soOutput = WithOrder(soInput, Null) \o KeyedFrom(soInput, 1)
                 \o SelectSeq(soInput, IsEllipsis)

\* the call has returned for a list that holds both ellipsis tokens, two
\* classnames with an order out of order, and a classname without an order
C15_Witness ==
  /\ soDone
  /\ soInput = <<HorizontalEllipsis, <<"w", "-", "2">>, <<"f", "o", "o">>,
                 <<".", ".", ".">>, <<"m", "-", "2">>>>
  /\ soOutput = <<<<"f", "o", "o">>, <<"m", "-", "2">>, <<"w", "-", "2">>,
                  HorizontalEllipsis, <<".", ".", ".">>>>

(***************************************************************************)
(* patchRegex and its cache (cachedRegexes)                                *)
(***************************************************************************)
Letters ==
  {"a", "b", "c", "d", "e", "f", "g", "h", "i", "j", "k", "l", "m", "n", "o", "p", "q", "r",
   "s", "t", "u", "v", "w", "x", "y", "z", "A", "B", "C", "D", "E", "F", "G", "H", "I", "J",
   "K", "L", "M", "N", "O", "P", "Q", "R", "S", "T", "U", "V", "W", "X", "Y", "Z"}

Digits == {"0", "1", "2", "3", "4", "5", "6", "7", "8", "9"}

\* the characters that \W does not match
RegexWordChars == Letters \cup Digits \cup {"_"}

\* str.replace(/\W/g, "\\$&")
RECURSIVE escapeSpecialChars(_)
escapeSpecialChars(str) ==
  IF str = <<>> THEN <<>>
  ELSE (IF str[1] \in RegexWordChars THEN <<str[1]>> ELSE <<"\\", str[1]>>)
         \o escapeSpecialChars(Tail(str))

\* Array.prototype.join
RECURSIVE Join(_, _)
Join(parts, sep) ==
  IF parts = <<>> THEN <<>>
  ELSE IF Len(parts) = 1 THEN parts[1]
  ELSE parts[1] \o sep \o Join(Tail(parts), sep)

genericArbitraryOption == <<"\\", "[", "(", ".", "*", ")", "\\", "]">>

genericScaleValue ==
  <<"(", "\\", "d", "{", "1", ",", "}", "(", "\\", ".", "\\", "d", "{", "1", ",", "}",
    ")", "?", "|", "\\", ".", "\\", "d", "{", "1", ",", "}", "|", "\\", "d", "{", "1",
    ",", "}", "\\", "/", "\\", "d", "{", "1", ",", "}", "|", "p", "x", "|", "a", "u",
    "t", "o", "|", "f", "u", "l", "l", "|", "m", "i", "n", "|", "m", "a", "x", "|", "f",
    "i", "t", "|", "n", "o", "n", "e", "|", "s", "c", "r", "e", "e", "n", "|", "i", "n",
    "h", "e", "r", "i", "t", "|", "i", "n", "i", "t", "i", "a", "l", "|", "u", "n", "s",
    "e", "t", "|", "x", "s", "|", "s", "m", "|", "m", "d", "|", "l", "g", "|", "x", "l",
    "|", "2", "x", "l", "|", "3", "x", "l", "|", "4", "x", "l", "|", "5", "x", "l", "|",
    "6", "x", "l", "|", "7", "x", "l", "|", "8", "x", "l", "|", "9", "x", "l", "|", "s",
    "v", "h", "|", "l", "v", "h", "|", "d", "v", "h", "|", "s", "v", "w", "|", "l", "v",
    "w", "|", "d", "v", "w", ")">>

\* the options of zIndex when the theme gives no key
genericZIndexValue == <<"(", "a", "u", "t", "o", "|", "\\", "d", "{", "1", ",", "}", ")">>

DefaultKey == <<"D", "E", "F", "A", "U", "L", "T">>

zIndex == <<"z", "I", "n", "d", "e", "x">>

\* the index of the first element of keys that is x, 0 when there is none
RECURSIVE IndexIn(_, _, _)
IndexIn(keys, x, k) ==
  IF k > Len(keys) THEN 0 ELSE IF keys[k] = x THEN k ELSE IndexIn(keys, x, k + 1)

\* keys.splice(defaultKeyIndex, 1) when DEFAULT is among the keys
WithoutDefault(keys) ==
  LET defaultKeyIndex == IndexIn(keys, DefaultKey, 1)
  IN  IF defaultKeyIndex = 0 THEN keys
      ELSE SubSeq(keys, 1, defaultKeyIndex - 1) \o SubSeq(keys, defaultKeyIndex + 1, Len(keys))

\* generateOptions for the properties whose options are the keys of the scale
\* followed by a generic arbitrary value: zIndex, and the default case
generateOptions(propName, keysArg) ==
  LET keys == WithoutDefault(keysArg)
      escapedKeys == [k \in 1..Len(keys) |-> escapeSpecialChars(keys[k])]
      generic == IF propName = zIndex THEN genericZIndexValue ELSE genericScaleValue
      options == (IF Len(keys) = 0 THEN Append(escapedKeys, generic) ELSE escapedKeys)
                   \o <<genericArbitraryOption>>
  IN  <<"(">> \o Join(options, <<"|">>) \o <<")">>

\* getThemeScale on a theme that configures zIndex only; a scale is the
\* sequence of its entries [key, val] in the order of Object.keys
getThemeScale(theme, prop) == IF prop = zIndex THEN theme ELSE <<>>

\* where the letters that start at q end
RECURSIVE PropEnd(_, _)
PropEnd(re, q) == IF q <= Len(re) /\ re[q] \in Letters THEN PropEnd(re, q + 1) ELSE q

\* the first groups of re.matchAll(/\${(-?[a-z]*)}/gi), scanning from p on
RECURSIVE PropsFrom(_, _)
PropsFrom(re, p) ==
  IF p + 2 > Len(re) THEN <<>>
  ELSE IF re[p] = "$" /\ re[p + 1] = "{"
  THEN LET q == PropEnd(re, IF re[p + 2] = "-" THEN p + 3 ELSE p + 2)
       IN  IF q <= Len(re) /\ re[q] = "}"
           THEN <<SubSeq(re, p + 2, q - 1)>> \o PropsFrom(re, q + 1)
           ELSE PropsFrom(re, p + 1)
  ELSE PropsFrom(re, p + 1)

\* the index of the first occurrence of sub in str from p on, 0 when none
RECURSIVE IndexOfFrom(_, _, _)
IndexOfFrom(str, sub, p) ==
  IF p + Len(sub) - 1 > Len(str) THEN 0
  ELSE IF SubSeq(str, p, p + Len(sub) - 1) = sub THEN p
  ELSE IndexOfFrom(str, sub, p + 1)

\* str.replace(token, by) for a token without metacharacters and a
\* replacement without '$'
ReplaceFirst(str, sub, by) ==
  LET p == IndexOfFrom(str, sub, 1)
  IN  IF p = 0 THEN str
      ELSE SubSeq(str, 1, p - 1) \o by \o SubSeq(str, p + Len(sub), Len(str))

\* the text that the RegExp token matches
TokenOf(prop) == <<"$", "{">> \o prop \o <<"}">>

\* Number.parseFloat(String(val)) is a number
ParsesAsNumber(val) ==
  LET body == IF val # <<>> /\ val[1] \in {"-", "+"} THEN Tail(val) ELSE val
  IN  /\ body # <<>>
      /\ \/ body[1] \in Digits
         \/ (body[1] = "." /\ Len(body) >= 2 /\ body[2] \in Digits)

\* a filter that keeps, for a negative property, only the keys whose value
\* parses as a number
KeepsNumericKey(entry, isNegative) ==
  IF isNegative THEN ParsesAsNumber(entry.val)
  ELSE ~(entry.key # <<>> /\ entry.key[1] = "-")

\* the filter on Object.keys(propThemeScale)
KeepsKey(entry, isNegative) ==
  IF isNegative
  THEN StartsWith(entry.val, <<"c", "a", "l", "c">>) \/ ParsesAsNumber(entry.val)
  ELSE ~(entry.key # <<>> /\ entry.key[1] = "-")

\* the keys after the filter and the map
KeysFor(propThemeScale, isNegative) ==
  LET kept(entry) == KeepsKey(entry, isNegative)
      keptEntries == SelectSeq(propThemeScale, kept)
      strip(key) == IF isNegative /\ key # <<>> /\ key[1] = "-" THEN Tail(key) ELSE key
  IN  [k \in 1..Len(keptEntries) |-> strip(keptEntries[k].key)]

\* for (const prop of props), from prop i on, for the properties of the theme
RECURSIVE ReplaceProps(_, _, _, _)
ReplaceProps(replaced, props, i, theme) ==
  IF i > Len(props) THEN replaced
  ELSE LET prop == props[i]
           token == TokenOf(prop)
           isNegative == prop # <<>> /\ prop[1] = "-"
           absoluteProp == IF isNegative THEN Tail(prop) ELSE prop
           propThemeScale == getThemeScale(theme, absoluteProp)
           keys == KeysFor(propThemeScale, isNegative)
       IN  IF Len(propThemeScale) = 0
           THEN ReplaceProps(ReplaceFirst(replaced, token, generateOptions(absoluteProp, <<>>)),
                             props, i + 1, theme)
           ELSE IF Len(keys) = 0 \/ IndexOfFrom(replaced, token, 1) = 0
           THEN ReplaceProps(replaced, props, i + 1, theme)
           ELSE ReplaceProps(ReplaceFirst(replaced, token, generateOptions(absoluteProp, keys)),
                             props, i + 1, theme)

\* the string patchRegex builds on a cache miss
CompilePattern(re, theme) ==
  LET patched == <<"\\", "!", "?">> \o escapeSpecialChars(ConfigPrefix)
      props == PropsFrom(re, 1)
  IN  IF Len(props) = 0 THEN patched \o <<"(">> \o re \o <<")">>
      ELSE patched \o <<"(">> \o ReplaceProps(re, props, 1, theme) \o <<")">>

\* a config instance without a Map in cachedRegexes, a Map without an entry
NoMap == <<"no map">>

NoEntry == <<"no entry">>

\* cache.has(re) that never finds an entry
cacheNeverHas(cache, re) == FALSE

\* cache.has(re)
cacheHas(cache, re) == cache[re] # NoEntry

(***************************************************************************)
(* Specification SpecPatch: patchRegex on a template and a theme           *)
(***************************************************************************)
PositiveTemplate == <<"z", "\\", "-", "$", "{", "z", "I", "n", "d", "e", "x", "}">>

NegativeTemplate == <<"\\", "-", "z", "\\", "-", "$", "{", "-", "z", "I", "n", "d", "e", "x", "}">>

PlainTemplate == <<"b", "l", "o", "c", "k">>

MaxPatchKeys == 3

\* the entries a zIndex scale is made of, in the order of Object.keys:
\* numbers, a length, a calc expression, keywords, keys with a minus sign
PatchEntries ==
  << [key |-> <<"1", "0">>, val |-> <<"1", "0">>],
     [key |-> <<"a", "u", "t", "o">>, val |-> <<"a", "u", "t", "o">>],
     [key |-> <<"-", "1", "0">>, val |-> <<"-", "1", "0">>],
     [key |-> <<"-", "a", "u", "t", "o">>, val |-> <<"a", "u", "t", "o">>],
     [key |-> <<"p", "x">>, val |-> <<"1", "p", "x">>],
     [key |-> <<"h", "a", "l", "f">>, val |-> <<"c", "a", "l", "c", "(", "5", "0", "%", ")">>],
     [key |-> DefaultKey, val |-> <<"1">>] >>

PatchScales ==
  {LET chosen(entry) == \E k \in picked : PatchEntries[k] = entry
   IN  SelectSeq(PatchEntries, chosen) :
     picked \in {ks \in SUBSET (1..Len(PatchEntries)) : Cardinality(ks) <= MaxPatchKeys}}

\* z\-${zIndex}|\-z\-${-zIndex}
SignedTemplate == PositiveTemplate \o <<"|">> \o NegativeTemplate

\* order\-${order}: a property that the theme has no scale for
OrderTemplate == <<"o", "r", "d", "e", "r", "\\", "-", "$", "{", "o", "r", "d", "e", "r", "}">>

PatchTemplates ==
  {PositiveTemplate, NegativeTemplate, SignedTemplate, OrderTemplate, PlainTemplate}

InitPatch ==
  /\ IdleWorker
  /\ IdleArbitrary
  /\ IdleExtract
  /\ IdleSize
  /\ IdleGroups
  /\ IdleTagged
  /\ IdleOptions
  /\ IdleNegative
  /\ IdleSort
  /\ IdleCache
  /\ IdleOrder
  /\ IdlePrefix
  /\ IdleParse
  /\ IdleShorthand
  /\ IdleConflict
  /\ pxTheme \in PatchScales
  /\ pxRe \in PatchTemplates
  /\ pxResult = <<>>
  /\ pxDone = FALSE

\* patchRegex(re, config) on a config that has no pattern cached
PatchRegexOnce ==
  /\ ~pxDone
  /\ pxRe # <<>>
  /\ pxResult' = CompilePattern(pxRe, pxTheme)
  /\ pxDone' = TRUE
  /\ UNCHANGED <<pxTheme, pxRe, gpVars, prVars, shVars, cfVars, ordVars, cpVars, soVars, ngVars,
                 opVars, tgVars, grVars, szVars, exVars, avVars, wkVars>>

NextPatch == PatchRegexOnce

SpecPatch == InitPatch /\ [][NextPatch]_vars

\* the keys that a placeholder accepts: for a negative placeholder the keys
\* whose value parses as a number or starts with calc, without their minus
\* sign; for a positive placeholder the keys that do not begin with '-'
RECURSIVE AcceptedKeys(_, _)
AcceptedKeys(scale, isNegative) ==
  IF scale = <<>> THEN <<>>
  ELSE LET key == scale[1].key
           val == scale[1].val
           rest == AcceptedKeys(Tail(scale), isNegative)
       IN  IF isNegative
           THEN (IF ParsesAsNumber(val) \/ StartsWith(val, <<"c", "a", "l", "c">>)
                 THEN <<IF key[1] = "-" THEN Tail(key) ELSE key>> \o rest
                 ELSE rest)
           ELSE (IF key[1] = "-" THEN rest ELSE <<key>> \o rest)

\* the template from position p on, every placeholder of zIndex replaced by
\* the options of its accepted keys
RECURSIVE WithAcceptedKeys(_, _, _)
WithAcceptedKeys(re, p, scale) ==
  IF p > Len(re) THEN <<>>
  ELSE IF SubSeq(re, p, p + Len(TokenOf(zIndex)) - 1) = TokenOf(zIndex)
  THEN generateOptions(zIndex, AcceptedKeys(scale, FALSE))
         \o WithAcceptedKeys(re, p + Len(TokenOf(zIndex)), scale)
  ELSE IF SubSeq(re, p, p + Len(TokenOf(<<"-">> \o zIndex)) - 1) = TokenOf(<<"-">> \o zIndex)
  THEN generateOptions(zIndex, AcceptedKeys(scale, TRUE))
         \o WithAcceptedKeys(re, p + Len(TokenOf(<<"-">> \o zIndex)), scale)
  ELSE <<re[p]>> \o WithAcceptedKeys(re, p + 1, scale)

\* patchRegex substitutes every placeholder of the template from the scale:
\* the scale has keys and each placeholder accepts one of them
Substitutes ==
  /\ pxRe \in {PositiveTemplate, NegativeTemplate, SignedTemplate}
  /\ pxTheme # <<>>
  /\ pxRe \in {PositiveTemplate, SignedTemplate} => AcceptedKeys(pxTheme, FALSE) # <<>>
  /\ pxRe \in {NegativeTemplate, SignedTemplate} => AcceptedKeys(pxTheme, TRUE) # <<>>

\* C23: a negative placeholder is replaced by the options of exactly the
\* keys whose value parses as a number or starts with calc, a leading '-'
\* stripped from the key; a positive placeholder by the options of exactly
\* the keys that do not begin with '-'.
C23_AcceptedKeysBySign ==
  (pxDone /\ Substitutes) =>
    pxResult = <<"\\", "!", "?", "(">> \o WithAcceptedKeys(pxRe, 1, pxTheme) \o <<")">>

\* the signed template has been patched on a scale with a number, a keyword
\* and a calc expression: the positive placeholder takes all three keys,
\* the negative one the number and the calc expression
C23_Witness ==
  /\ pxDone
  /\ pxRe = SignedTemplate
  /\ AcceptedKeys(pxTheme, FALSE) = <<<<"1", "0">>, <<"a", "u", "t", "o">>, <<"h", "a", "l", "f">>>>
  /\ AcceptedKeys(pxTheme, TRUE) = <<<<"1", "0">>, <<"h", "a", "l", "f">>>>
  /\ pxResult = <<"\\", "!", "?", "(">> \o WithAcceptedKeys(pxRe, 1, pxTheme) \o <<")">>

\* the pattern holds the text of a placeholder: ${ ... }
HoldsPlaceholder(pattern) ==
  \E p \in 1..Len(pattern) - 1 : \E q \in p + 2..Len(pattern) :
    /\ pattern[p] = "$" /\ pattern[p + 1] = "{" /\ pattern[q] = "}"
    /\ \A k \in p + 2..q - 1 : pattern[k] \in Letters \cup {"-"}

\* C26: every pattern returned by patchRegex is free of unresolved ${...}
\* placeholders: each is replaced by an options group, the generic one when
\* the theme provides no usable key (scale absent, scale empty, or every key
\* filtered out).
C26_NoPlaceholderLeft ==
  pxDone => ~HoldsPlaceholder(pxResult)

(***************************************************************************)
(* The calls of patchRegex: two config instances, each with its own theme, *)
(* and the templates of the z-index leaves                                 *)
(***************************************************************************)
Instances == {1, 2}

MaxKeys == 2

\* the entries a zIndex scale is made of, in the order of Object.keys
ScaleEntries ==
  << [key |-> <<"1", "0">>, val |-> <<"1", "0">>],
     [key |-> <<"a", "u", "t", "o">>, val |-> <<"a", "u", "t", "o">>],
     [key |-> <<"-", "1", "0">>, val |-> <<"-", "1", "0">>],
     [key |-> DefaultKey, val |-> <<"1">>] >>

Scales ==
  {LET chosen(entry) == \E k \in picked : ScaleEntries[k] = entry
   IN  SelectSeq(ScaleEntries, chosen) :
     picked \in {ks \in SUBSET (1..Len(ScaleEntries)) : Cardinality(ks) <= MaxKeys}}

Templates == {PositiveTemplate, NegativeTemplate, PlainTemplate}

InitCache ==
  /\ IdleWorker
  /\ IdleArbitrary
  /\ IdleExtract
  /\ IdleSize
  /\ IdlePatch
  /\ IdleGroups
  /\ IdleTagged
  /\ IdleOptions
  /\ IdleNegative
  /\ IdleSort
  /\ IdleOrder
  /\ IdlePrefix
  /\ IdleParse
  /\ IdleShorthand
  /\ IdleConflict
  /\ cpTheme \in [Instances -> Scales]
  /\ cpCache = [i \in Instances |-> NoMap]
  /\ cpCompiled = [i \in Instances |-> [re \in Templates |-> 0]]
  /\ cpCall = <<>>
  /\ cpRet = <<>>

\* patchRegex(re, config) for the config instance i
PatchRegexCall(i, re) ==
  /\ cpTheme # <<>>
  /\ LET cache == IF cpCache[i] = NoMap THEN [t \in Templates |-> NoEntry] ELSE cpCache[i]
     IN  IF cacheHas(cache, re)
         THEN /\ cpRet' = cache[re]
              /\ cpCache' = [cpCache EXCEPT ![i] = cache]
              /\ cpCall' = [config |-> i, re |-> re, hit |-> TRUE]
              /\ UNCHANGED cpCompiled
         ELSE LET result == CompilePattern(re, cpTheme[i])
              IN  /\ cpRet' = result
                  /\ cpCache' = [cpCache EXCEPT ![i] = [cache EXCEPT ![re] = result]]
                  /\ cpCompiled' = [cpCompiled EXCEPT ![i][re] = @ + 1]
                  /\ cpCall' = [config |-> i, re |-> re, hit |-> FALSE]
  /\ UNCHANGED <<cpTheme, gpVars, prVars, shVars, cfVars, ordVars, soVars, ngVars, opVars, tgVars, grVars, pxVars, szVars, exVars, avVars, wkVars>>

NextCache == \E i \in Instances : \E re \in Templates : PatchRegexCall(i, re)

SpecCache == InitCache /\ [][NextCache]_vars

(***************************************************************************)
(* Properties of the cache of patchRegex                                   *)
(***************************************************************************)
\* the Map of instance i holds a string for re
Published(i, re) == cpCache[i] # NoMap /\ cpCache[i][re] # NoEntry

\* the property that the template references, <<>> when it references none
ReferencedProp(re) == IF PropsFrom(re, 1) = <<>> THEN <<>> ELSE PropsFrom(re, 1)[1]

ConfiguredKeys(scale) == {scale[k].key : k \in 1..Len(scale)}

\* the keys of the scale that reach the pattern of the property: the keys
\* that pass the filter for its sign, without the minus sign of a negative
\* property and without DEFAULT
EffectiveKeys(scale, prop) ==
  WithoutDefault(KeysFor(scale, prop # <<>> /\ prop[1] = "-"))

\* a pair is compiled at most once, exactly when it is published, every
\* instance on its own; the published string is a function of the template
\* and the theme of the instance, and is what the last call returned
CompiledOncePerInstance ==
  /\ \A i \in Instances : \A re \in Templates :
       /\ cpCompiled[i][re] = (IF Published(i, re) THEN 1 ELSE 0)
       /\ Published(i, re) => cpCache[i][re] = CompilePattern(re, cpTheme[i])
  /\ cpCall # <<>> =>
       /\ Published(cpCall.config, cpCall.re)
       /\ cpRet = cpCache[cpCall.config][cpCall.re]

mergedUnits ==
  {<<"c", "a", "p">>, <<"c", "h">>, <<"e", "m">>, <<"e", "x">>, <<"i", "c">>, <<"l", "h">>, <<"r", "e", "m">>, <<"r", "l", "h">>, <<"v", "b">>, <<"v", "h">>, <<"v", "i">>, <<"v", "w">>, <<"v", "m", "i", "n">>, <<"v", "m", "a", "x">>, <<"p", "x">>, <<"m", "m">>, <<"c", "m">>, <<"i", "n">>, <<"p", "t">>, <<"p", "c">>, <<"l", "i", "n">>, <<"%">>}

\* String(configValue) of a value of the theme scales
ValueText(val) ==
  CASE val = "0.5rem" -> <<"0", ".", "5", "r", "e", "m">>
    [] val = "1rem" -> <<"1", "r", "e", "m">>
    [] val = "auto" -> <<"a", "u", "t", "o">>
    [] OTHER -> <<>>

\* (0(\.0{1,})?|\.0{1,}) matches the whole of s
IsZeroNumber(s) ==
  \/ s = <<"0">>
  \/ /\ Len(s) >= 3
     /\ s[1] = "0"
     /\ s[2] = "."
     /\ \A k \in 3..Len(s) : s[k] = "0"
  \/ /\ Len(s) >= 2
     /\ s[1] = "."
     /\ \A k \in 2..Len(s) : s[k] = "0"

\* new RegExp(validZeroRegEx, "i").test(s): a zero with or without a unit
validZeroTest(s) ==
  \/ IsZeroNumber(s)
  \/ \E u \in mergedUnits :
       /\ Len(u) < Len(s)
       /\ Drop(s, Len(s) - Len(u)) = u
       /\ IsZeroNumber(Take(s, Len(s) - Len(u)))

\* the positions of the '[' of c that the greedy backBone of
\* /^(?<backBone>.*)\[(?<arbitraryValue>.*)]$/ can stop before
ArbitraryOpenings(c) ==
  IF c # <<>> /\ c[Len(c)] = "]" THEN {p \in 1..(Len(c) - 1) : c[p] = "["} ELSE {}

\* arbitraryRegEx.test(c)
arbitraryRegExTest(c) == ArbitraryOpenings(c) # {}

\* arbitraryRegEx.exec(c).groups, for a c that the expression matches
arbitraryRegExExec(c) ==
  LET opens == ArbitraryOpenings(c)
      p == CHOOSE i \in opens : \A j \in opens : i >= j
  IN  [backBone |-> Take(c, p - 1), arbitraryValue |-> SubSeq(c, p + 1, Len(c) - 1)]

\* const configKeys = getGroupConfigKeys(defaultGroups)
configKeys == getGroupConfigKeys(defaultGroups)

\* the filter over Object.keys(configuration): the keys that match the
\* arbitrary value, each with the entry pushed to negativeSubstitutes
MatchingConfigurationKeys(configuration, arbitraryValue, canBeNegative, isNegativeClass) ==
  LET isZeroArbitraryValue == validZeroTest(arbitraryValue)
      isNegativeValue == StartsWith(arbitraryValue, <<"-">>)
      absoluteValue == IF isNegativeValue THEN Drop(arbitraryValue, 1) ELSE arbitraryValue
      verdict(e) ==
        LET configValueStr == ValueText(e.val)
        IN  IF isZeroArbitraryValue /\ validZeroTest(configValueStr)
            THEN [keep |-> TRUE, negative |-> FALSE]
            ELSE IF canBeNegative
            THEN [keep |-> configValueStr = absoluteValue,
                  negative |-> isNegativeClass # isNegativeValue]
            ELSE [keep |-> configValueStr = arbitraryValue, negative |-> FALSE]
  IN  {[key |-> e.key, negative |-> verdict(e).negative] :
         e \in {x \in configuration : verdict(x).keep}}

\* the map over matchingConfigurationKeys: the substitute of one key
SubstituteOf(parsed, backBone, match) ==
  LET cut == Drop(backBone, Len(parsed.variants))
      patchedBody == IF StartsWith(cut, <<"-">>) THEN Drop(cut, 1) ELSE cut
      noneOrMinus == IF match.negative THEN <<"-">> ELSE <<>>
  IN  IF match.key = <<"D", "E", "F", "A", "U", "L", "T">>
      THEN parsed.variants \o noneOrMinus \o Take(patchedBody, Max(0, Len(patchedBody) - 1))
      ELSE parsed.variants \o noneOrMinus \o patchedBody \o match.key

\* the end of the loop body: the classname pushed to
\* unnecessaryArbitraryClasses with its existingSubstitutes, when some key
\* matches
PushUnnecessary(parsed, res, matches) ==
  IF matches = {} THEN <<>>
  ELSE <<[unjustified |-> parsed.name,
          substitutes |-> {SubstituteOf(parsed, res.backBone, m) : m \in matches}]>>

\* the loop body from configurationKey on: continue without a key or
\* without a scale of the theme
UnnecessaryWithKey(parsed, res, canBeNegative, configurationKey) ==
  IF ToString(configurationKey) = ToString(Null) \/ ThemeScale(configurationKey) = {}
  THEN <<>>
  ELSE PushUnnecessary(parsed, res,
                       MatchingConfigurationKeys(ThemeScale(configurationKey),
                                                 res.arbitraryValue, canBeNegative,
                                                 StartsWith(parsed.body, <<"-">>)))

\* the loop body from groupIdx on: continue when no group matches
UnnecessaryInGroup(parsed, res, groupIdx) ==
  IF res.backBone = <<>> \/ res.arbitraryValue = <<>> \/ groupIdx < 0 THEN <<>>
  ELSE UnnecessaryWithKey(parsed, res, groups[groupIdx + 1].negative,
                          configKeys[groupIdx + 1])

\* the loop body from arbitraryRegEx.exec(parsed.name) on
UnnecessaryParsed(arbitraryClass, parsed) ==
  IF ~arbitraryRegExTest(parsed.name) THEN <<>>
  ELSE UnnecessaryInGroup(parsed, arbitraryRegExExec(parsed.name),
                          getGroupIndex(arbitraryClass, groups))

\* the body of the loop over arbitraryClassnames: nothing, or the classname
\* pushed to unnecessaryArbitraryClasses with its existingSubstitutes
UnnecessaryOf(arbitraryClass, idx) ==
  UnnecessaryParsed(arbitraryClass, parseClassname(arbitraryClass, <<>>, idx))

\* unnecessaryArbitraryClasses with existingSubstitutes, in the order of
\* the arbitrary classnames, from the k-th on
RECURSIVE UnnecessaryArbitraryClasses(_, _)
UnnecessaryArbitraryClasses(arbitraryClassnames, k) ==
  IF k > Len(arbitraryClassnames) THEN <<>>
  ELSE UnnecessaryOf(arbitraryClassnames[k], k - 1)
         \o UnnecessaryArbitraryClasses(arbitraryClassnames, k + 1)

\* the fixables of the one range: the classnames with exactly one substitute
FixBatch(unnecessary) ==
  SelectSeq(unnecessary, LAMBDA u : Cardinality(u.substitutes) = 1)

\* the loop over batchFixes: patched = patched.replace(unjustified, substitute)
RECURSIVE PatchAll(_, _, _)
PatchAll(patched, batchFixes, k) ==
  IF k > Len(batchFixes) THEN patched
  ELSE PatchAll(ReplaceFirst(patched, batchFixes[k].unjustified,
                             CHOOSE sub \in batchFixes[k].substitutes : TRUE),
                batchFixes, k + 1)

\* the reports and the fix, given unnecessaryArbitraryClasses
ReportUnnecessary(originalClassNamesValue, unnecessary) ==
  [flagged |-> unnecessary,
   fixed |-> PatchAll(originalClassNamesValue, FixBatch(unnecessary), 1)]

\* the callback of parseForArbitraryValues on the value of a string literal
parseForArbitraryValues(originalClassNamesValue) ==
  ReportUnnecessary(originalClassNamesValue,
                    UnnecessaryArbitraryClasses(
                      SelectSeq(extractClassnamesFromValue(originalClassNamesValue).classNames,
                                arbitraryRegExTest), 1))

(***************************************************************************)
(* Specification SpecArbitrary: the rule on every bounded class string     *)
(***************************************************************************)
MaxArbClasses == 3

\* classnames with an arbitrary value the height, width and margin scales
\* hold, or do not hold, and one without arbitrary value
ArbitraryNames ==
  {<<"h", "-", "[", "1", "r", "e", "m", "]">>,
   <<"m", "i", "n", "-", "h", "-", "[", "1", "r", "e", "m", "]">>,
   <<"m", "d", ":", "h", "-", "[", "1", "r", "e", "m", "]">>,
   <<"w", "-", "[", "1", "r", "e", "m", "]">>,
   <<"h", "-", "4">>,
   <<"h", "-", "[", "3", "r", "e", "m", "]">>,
   <<"-", "m", "-", "[", "1", "r", "e", "m", "]">>,
   <<"m", "-", "[", "-", "1", "r", "e", "m", "]">>,
   <<"m", "-", "[", "a", "u", "t", "o", "]">>}

InitArbitrary ==
  /\ IdleWorker
  /\ IdleSize
  /\ IdlePatch
  /\ IdleGroups
  /\ IdleTagged
  /\ IdleOptions
  /\ IdleNegative
  /\ IdleSort
  /\ IdleCache
  /\ IdleOrder
  /\ IdlePrefix
  /\ IdleParse
  /\ IdleShorthand
  /\ IdleConflict
  /\ IdleExtract
  /\ \E names \in SeqsUpTo(ArbitraryNames, MaxArbClasses) \ {<<>>} :
       \E pad \in {<<>>, <<" ">>} : avText = pad \o JoinSpaces(names) \o pad
  /\ avFlagged = <<>>
  /\ avFixed = <<>>
  /\ avDone = FALSE

LintArbitrary ==
  /\ ~avDone
  /\ \E report \in {parseForArbitraryValues(avText)} :
       /\ avFlagged' = report.flagged
       /\ avFixed' = report.fixed
  /\ avDone' = TRUE
  /\ UNCHANGED <<avText, gpVars, prVars, shVars, cfVars, ordVars, cpVars, soVars, ngVars, opVars, tgVars,
               grVars, pxVars, szVars, exVars, wkVars>>

NextArbitrary == LintArbitrary

SpecArbitrary == InitArbitrary /\ [][NextArbitrary]_vars

\* the classnames of the fix batch
FlaggedNames == {FixBatch(avFlagged)[k].unjustified : k \in 1..Len(FixBatch(avFlagged))}

\* the substitute of a classname of the fix batch
SubstituteFor(name) ==
  LET k == CHOOSE i \in 1..Len(FixBatch(avFlagged)) : FixBatch(avFlagged)[i].unjustified = name
  IN  CHOOSE sub \in FixBatch(avFlagged)[k].substitutes : TRUE

\* C29: the fix replaces only the flagged classname tokens by their
\* substitutes; every other token and all whitespace of the class string are
\* unchanged, tokens that contain a flagged classname as a substring included.
C29_OnlyFlaggedTokensReplaced ==
  avDone =>
    LET before == extractClassnamesFromValue(avText)
        after == extractClassnamesFromValue(avFixed)
    IN  /\ after.whitespaces = before.whitespaces
        /\ after.headSpace = before.headSpace
        /\ after.tailSpace = before.tailSpace
        /\ Len(after.classNames) = Len(before.classNames)
        /\ \A k \in 1..Len(before.classNames) :
             after.classNames[k] =
               IF before.classNames[k] \in FlaggedNames
               THEN SubstituteFor(before.classNames[k])
               ELSE before.classNames[k]

(***************************************************************************)
(* resolve (util/customConfig.ts) and the two workers                      *)
(***************************************************************************)
CHECK_REFRESH_RATE == 10000

\* Map.prototype.get with ?? fallback
GetOr(map, key, fallback) == IF key \in DOMAIN map THEN map[key] ELSE fallback

\* now - last >= CHECK_REFRESH_RATE
ExpiredAtRate(now, last) == now - last >= CHECK_REFRESH_RATE

\* const expired = now - last > CHECK_REFRESH_RATE
Expired(now, last) == now - last > CHECK_REFRESH_RATE

\* resolve(twConfig) at the time now: the maps and instances it leaves and
\* the instance it returns; a new TailwindUtils has the context null
resolve(twConfig, now, lastCheck, mergedConfig, contexts) ==
  LET newConfig == twConfig \notin DOMAIN mergedConfig
      last == GetOr(lastCheck, twConfig, 0)
      expired == Expired(now, last)
      created == newConfig \/ expired
      tailwindUtils == IF created THEN Len(contexts) + 1 ELSE mergedConfig[twConfig]
  IN  [lastCheck |-> IF created THEN (twConfig :> now) @@ lastCheck ELSE lastCheck,
       mergedConfig |-> IF created THEN (twConfig :> tailwindUtils) @@ mergedConfig
                        ELSE mergedConfig,
       contexts |-> IF created THEN Append(contexts, "null") ELSE contexts,
       tailwindUtils |-> tailwindUtils]

\* the end of a worker call on an instance with the given context:
\* getSortedClassNames throws without context, getTailwindConfig throws
\* without context.tailwindConfig; "partial" is a context whose tailwindConfig
\* was never assigned
Answer(kind, context) ==
  IF kind = "sorted"
  THEN (IF context = "null" THEN "threw" ELSE "returned")
  ELSE (IF context = "loaded" THEN "returned" ELSE "threw")

(***************************************************************************)
(* Specification SpecWorker: calls of one worker at arbitrary times        *)
(***************************************************************************)
MaxClock == 20004
MaxCalls == 3

\* the config inputs that are keys of the maps
ConfigInputs == {"a.css", "b.css"}

\* the time that passes in one step of the clock
ClockSteps == {5000, 5001}

InitWorker ==
  /\ IdleArbitrary
  /\ IdleSize
  /\ IdlePatch
  /\ IdleGroups
  /\ IdleTagged
  /\ IdleOptions
  /\ IdleNegative
  /\ IdleSort
  /\ IdleCache
  /\ IdleOrder
  /\ IdlePrefix
  /\ IdleParse
  /\ IdleShorthand
  /\ IdleConflict
  /\ IdleExtract
  /\ wkKind \in {"sorted", "config"}
  /\ wkNow = 0
  /\ wkLastCheck = <<>>
  /\ wkMergedConfig = <<>>
  /\ wkContexts = <<>>
  /\ wkLog = <<>>
  /\ wkPc = "idle"

\* time passes, between calls or while loadConfig is awaited
ClockTick ==
  /\ wkPc \in {"idle", "loading"}
  /\ \E d \in ClockSteps :
       /\ wkNow + d <= MaxClock
       /\ wkNow' = wkNow + d
  /\ UNCHANGED <<wkKind, wkLastCheck, wkMergedConfig, wkContexts, wkLog, wkPc, gpVars, prVars, shVars, cfVars, ordVars, cpVars, soVars, ngVars, opVars, tgVars,
               grVars, pxVars, szVars, exVars, avVars>>

\* the worker function up to its await: resolve, then either the await of
\* loadConfig or, on an instance with a context, the answer
CallWorker ==
  /\ wkPc = "idle"
  /\ Len(wkLog) < MaxCalls
  /\ \E twConfig \in ConfigInputs :
       LET r == resolve(twConfig, wkNow, wkLastCheck, wkMergedConfig, wkContexts)
           context == r.contexts[r.tailwindUtils]
           call == [twConfig |-> twConfig, at |-> wkNow, tailwindUtils |-> r.tailwindUtils,
                    context |-> context]
       IN  /\ wkLastCheck' = r.lastCheck
           /\ wkMergedConfig' = r.mergedConfig
           /\ wkContexts' = r.contexts
           /\ IF context = "null"
              THEN /\ wkPc' = "loading"
                   /\ wkLog' = Append(wkLog, call @@ [read |-> "none", result |-> "pending"])
              ELSE /\ wkPc' = "idle"
                   /\ wkLog' = Append(wkLog, call @@ [read |-> context,
                                                      result |-> Answer(wkKind, context)])
  /\ UNCHANGED <<wkKind, wkNow, gpVars, prVars, shVars, cfVars, ordVars, cpVars, soVars, ngVars, opVars, tgVars,
               grVars, pxVars, szVars, exVars, avVars>>

\* await tailwindUtils.loadConfig(twConfig, pwd) settles: it has assigned
\* the context and its tailwindConfig ("loaded"), or it has thrown before the
\* context was assigned ("null") or after, before tailwindConfig was
\* ("partial"); a rejection ends the worker call
LoadConfigSettles ==
  /\ wkPc = "loading"
  /\ \E context \in {"loaded", "null", "partial"} :
       LET call == wkLog[Len(wkLog)]
       IN  /\ wkContexts' = [wkContexts EXCEPT ![call.tailwindUtils] = context]
           /\ wkLog' = [wkLog EXCEPT ![Len(wkLog)] =
                          IF context = "loaded"
                          THEN [@ EXCEPT !.read = context,
                                         !.result = Answer(wkKind, context)]
                          ELSE [@ EXCEPT !.result = "threw"]]
  /\ wkPc' = "idle"
  /\ UNCHANGED <<wkKind, wkNow, wkLastCheck, wkMergedConfig, gpVars, prVars, shVars, cfVars, ordVars, cpVars, soVars, ngVars, opVars, tgVars,
               grVars, pxVars, szVars, exVars, avVars>>

NextWorker == ClockTick \/ CallWorker \/ LoadConfigSettles

SpecWorker == InitWorker /\ [][NextWorker]_vars

\* the time at which the instance was constructed: that of the first call
\* that resolved it
CreatedAt(tailwindUtils) ==
  wkLog[CHOOSE i \in 1..Len(wkLog) :
          /\ wkLog[i].tailwindUtils = tailwindUtils
          /\ \A j \in 1..(i - 1) : wkLog[j].tailwindUtils # tailwindUtils].at

\* the call before call j with the same key, 0 when there is none
PreviousCall(j) ==
  LET same == {i \in 1..(j - 1) : wkLog[i].twConfig = wkLog[j].twConfig}
  IN  IF same = {} THEN 0 ELSE CHOOSE i \in same : \A k \in same : i >= k

\* the instance of call j was returned by no earlier call
Fresh(j) == \A i \in 1..(j - 1) : wkLog[i].tailwindUtils # wkLog[j].tailwindUtils

\* C30: over any sequence of worker calls at arbitrary times, resolve returns
\* for a key the instance it returned before until more than 10 000 ms have
\* passed since that instance was created, and a fresh instance afterwards;
\* an instance whose context is null has completed loadConfig before the
\* class order or the config is read from it, so nothing is read from an
\* unloaded instance; and a call that has no context or config to answer
\* from throws instead of returning.
C30_ResolveAndLoadBeforeRead ==
  \A j \in 1..Len(wkLog) :
    LET call == wkLog[j]
        before == PreviousCall(j)
    IN  /\ IF before # 0 /\ call.at - CreatedAt(wkLog[before].tailwindUtils) <= 10000
           THEN call.tailwindUtils = wkLog[before].tailwindUtils
           ELSE Fresh(j)
        /\ call.read # "null"
        /\ (call.context = "null" /\ call.read # "none") => call.read = "loaded"
        /\ call.result = "returned" =>
             /\ call.read # "none"
             /\ wkKind = "config" => call.read = "loaded"
        /\ (call.result # "pending" /\ (call.read = "none" \/
              (wkKind = "config" /\ call.read # "loaded"))) => call.result = "threw"

\* a key was resolved three times: the instance made at 0 was returned again
\* at 10 000 ms, loaded by then, and a fresh one at 15 000 ms, loaded in turn
C30_Witness ==
  /\ wkPc = "idle"
  /\ Len(wkLog) >= 3
  /\ \E i, j, k \in 1..Len(wkLog) :
       /\ i < j
       /\ j < k
       /\ wkLog[i].twConfig = wkLog[j].twConfig
       /\ wkLog[j].twConfig = wkLog[k].twConfig
       /\ wkLog[i].at = 0
       /\ wkLog[j].at = 10000
       /\ wkLog[k].at = 15000
       /\ wkLog[i].tailwindUtils = wkLog[j].tailwindUtils
       /\ wkLog[k].tailwindUtils # wkLog[j].tailwindUtils
       /\ wkLog[i].context = "null"
       /\ wkLog[j].context = "loaded"
       /\ wkLog[k].context = "null"
       /\ \A n \in {i, j, k} : wkLog[n].result = "returned"

(***************************************************************************)
(* Specification SpecPrefix: getPrefix called on every bounded string      *)
(***************************************************************************)
\* longest classname handed to getPrefix
MaxNameLen == 5

PrefixAlphabet == {"a", ":", "[", "]", "("}

\* number of '[' minus number of ']' among the first n characters of s
Depth(s, n) ==
  Cardinality({k \in 1..n : s[k] = "["}) - Cardinality({k \in 1..n : s[k] = "]"})

\* every ']' closes an earlier '[' and every '[' is closed
WellBracketed(s) ==
  /\ \A n \in 1..Len(s) : Depth(s, n) >= 0
  /\ Depth(s, Len(s)) = 0

InitPrefix ==
  /\ IdleWorker
  /\ IdleArbitrary
  /\ IdleExtract
  /\ IdleSize
  /\ IdlePatch
  /\ IdleGroups
  /\ IdleTagged
  /\ IdleOptions
  /\ IdleNegative
  /\ IdleSort
  /\ IdleCache
  /\ IdleOrder
  /\ IdleParse
  /\ IdleShorthand
  /\ IdleConflict
  /\ gpName \in SeqsUpTo(PrefixAlphabet, MaxNameLen)
  /\ gpResult = <<>>
  /\ gpDone = FALSE
  /\ gpSuffix = <<>>

CallGetPrefix ==
  /\ ~gpDone
  /\ gpResult' = getPrefix(gpName)
  /\ gpDone' = TRUE
  /\ UNCHANGED <<gpName, gpSuffix, prVars, shVars, cfVars, ordVars, cpVars, soVars, ngVars,
                 opVars, tgVars, grVars, pxVars, szVars, exVars, avVars, wkVars>>

\* getSuffix(name), then getPrefix and getSuffix of the suffix returned
CallGetSuffix ==
  /\ gpSuffix = <<>>
  /\ gpSuffix' = LET suffix == getSuffix(gpName)
                 IN  <<suffix, getPrefix(suffix), getSuffix(suffix)>>
  /\ UNCHANGED <<gpName, gpResult, gpDone, prVars, shVars, cfVars, ordVars, cpVars, soVars,
                 ngVars, opVars, tgVars, grVars, pxVars, szVars, exVars, avVars, wkVars>>

NextPrefix == CallGetPrefix \/ CallGetSuffix

SpecPrefix == InitPrefix /\ [][NextPrefix]_vars

\* position i of a well-bracketed s lies inside a [...] pair
InsideBrackets(s, i) == Depth(s, i) > 0

\* the last ':' of s outside every bracket pair, 0 when there is none
LastOuterColon(s) ==
  LET outer == {i \in 1..Len(s) : s[i] = ":" /\ ~InsideBrackets(s, i)}
  IN  IF outer = {} THEN 0 ELSE CHOOSE i \in outer : \A j \in outer : i >= j

\* C9: getPrefix(name) is name up to and including the last ':' outside every
\* [...] pair ('' when there is none); a ':' inside brackets is never taken
\* as a variant separator.
C9_PrefixIsLastOuterColon ==
  (gpDone /\ WellBracketed(gpName)) => gpResult = Take(gpName, LastOuterColon(gpName))

\* C27: getPrefix(s) + getSuffix(s) = s, getPrefix(s) is empty or ends with
\* ':', and the suffix holds no further separator: getPrefix(getSuffix(s))
\* is empty and getSuffix(getSuffix(s)) = getSuffix(s).
C27_PrefixPlusSuffix ==
  (gpDone /\ gpSuffix # <<>>) =>
    /\ gpResult \o gpSuffix[1] = gpName
    /\ gpResult = <<>> \/ gpResult[Len(gpResult)] = ":"
    /\ gpSuffix[2] = <<>>
    /\ gpSuffix[3] = gpSuffix[1]

\* a:[:] has been split into the prefix a: and the suffix [:], whose
\* colon is no separator
C27_Witness ==
  /\ gpDone
  /\ gpSuffix # <<>>
  /\ gpName = <<"a", ":", "[", ":", "]">>
  /\ gpResult = <<"a", ":">>
  /\ gpSuffix = << <<"[", ":", "]">>, <<>>, <<"[", ":", "]">> >>

====
